---------------------------- MODULE Spec2Model ----------------------------
(***************************************************************************)
(* A model of the ATP router core (atp-router/src/main.rs and             *)
(* consensus.rs): the window table, the request processor with its        *)
(* adapter fan-out and consensus, the weighted-lane dispatcher and the    *)
(* socket's out channel; and of the frame library (atp-schema/src/lib.rs): *)
(* checksum, fragmentation and reassembly.                                 *)
(*                                                                         *)
(* Time is the tokio Instant clock in milliseconds.  Token and cost        *)
(* counters are u64 in the source; the model keeps them far below 2^64,    *)
(* so u64 addition never wraps here.                                       *)
(***************************************************************************)
EXTENDS Integers, Sequences, FiniteSets, Bags, TLC

VARIABLES
    now,        \* the monotonic clock, in ms
    windows,    \* GLOBAL_WINDOWS.inner: key -> WindowState, only for the keys inserted
    endpoints,  \* the ADAPTER_ENDPOINTS list read by process_request
    proc,       \* the spawned process_request tasks: locals and position
    sent,       \* per task, what it has sent on item.reply_tx, in order
    calls,      \* per task, the WindowTable calls it has made, in order
    order,      \* the dispatcher's rotation (VecDeque<Lane>)
    lanes,      \* the three lane channels of SCHED
    sel,        \* the lane the dispatcher has selected and is receiving from, if any
    dispatched, \* the work items the dispatcher has spawned a processor for, in order
    saturated,  \* whether every lane selected so far held an item when selected
    wsOut,      \* what handle_socket itself has sent on out_tx, in order
    held,       \* WindowSpec, SharedWindowSpec: the calls the users of the table still owe, and the last call
    cons,       \* ConsensusSpec, PrefixSpec: a list of finals and what compute returned for it
    frag,       \* FragSpec, ReadSpec: a base frame, text and size, the fragments made and the text read back
    reasm,      \* ReasmSpec: a Reassembler and the pushes made on it with what they returned
    cksum,      \* ChecksumSpec: a frame, and the last operation that changed it
    out         \* LiveSpec: the socket's out channel, its writer task and the client's end

vars == <<now, windows, endpoints, proc, sent, calls, order, lanes, sel, dispatched,
          saturated, wsOut, held, cons, frag, reasm, cksum, out>>

-----------------------------------------------------------------------------
(* Bounds of the model *)

\* the clock stops advancing at MaxTime
MaxTime == 2000

(* Program constants *)

\* under_pressure: Duration::from_secs(2)
PressureMs == 2000
\* provisional deadline: Duration::from_millis(700)
ProvisionalMs == 700
\* capacity of the per-request aggregation channel, mpsc::channel(64)
AggCapacity == 64

\* the slots of process_request tasks; the specifications below run one task at a time
ProcIds == {1}

-----------------------------------------------------------------------------
(* Option<T> as a sequence of length at most one *)
None == <<>>
Some(x) == <<x>>

(* u32/u64 saturating_sub *)
saturating_sub(a, b) == IF a >= b THEN a - b ELSE 0

-----------------------------------------------------------------------------
(* WindowTable *)

\* #[derive(Default)] WindowState
WindowStateDefault ==
    [inflight |-> 0, tokens |-> 0, usd |-> 0, last_backpressure |-> None]

\* map.get(key), with the default entry standing for a missing one
Entry(map, key) == IF key \in DOMAIN map THEN map[key] ELSE WindowStateDefault

\* map.entry(key).or_default()
OrDefault(map, key) == IF key \in DOMAIN map THEN map ELSE map @@ (key :> WindowStateDefault)

\* admit that lets inflight reach max_parallel + 1
admit_past_parallel(map, key, w, est_tokens, est_usd) ==
    LET m == OrDefault(map, key)
        e == m[key]
    IN  IF e.inflight > w.max_parallel THEN [ok |-> FALSE, map |-> m]
        ELSE IF e.tokens + est_tokens > w.max_tokens THEN [ok |-> FALSE, map |-> m]
        ELSE IF e.usd + est_usd > w.max_usd_micros THEN [ok |-> FALSE, map |-> m]
        ELSE [ok |-> TRUE,
              map |-> [m EXCEPT ![key] = [@ EXCEPT !.inflight = @ + 1,
                                                   !.tokens = @ + est_tokens,
                                                   !.usd = @ + est_usd]]]

\* WindowTable::admit: the result and the table after the call
admit(map, key, w, est_tokens, est_usd) ==
    LET m == OrDefault(map, key)
        e == m[key]
    IN  IF e.inflight >= w.max_parallel THEN [ok |-> FALSE, map |-> m]
        ELSE IF e.tokens + est_tokens > w.max_tokens THEN [ok |-> FALSE, map |-> m]
        ELSE IF e.usd + est_usd > w.max_usd_micros THEN [ok |-> FALSE, map |-> m]
        ELSE [ok |-> TRUE,
              map |-> [m EXCEPT ![key] = [@ EXCEPT !.inflight = @ + 1,
                                                   !.tokens = @ + est_tokens,
                                                   !.usd = @ + est_usd]]]

\* ack that gives back the tokens and the usd but keeps the inflight slot
ack_keeps_inflight(map, key, est_tokens, est_usd) ==
    IF key \in DOMAIN map
    THEN [map EXCEPT ![key] = [@ EXCEPT !.tokens = saturating_sub(@, est_tokens),
                                        !.usd = saturating_sub(@, est_usd)]]
    ELSE map

\* WindowTable::ack
ack(map, key, est_tokens, est_usd) ==
    IF key \in DOMAIN map
    THEN [map EXCEPT ![key] = [@ EXCEPT !.inflight = saturating_sub(@, 1),
                                        !.tokens = saturating_sub(@, est_tokens),
                                        !.usd = saturating_sub(@, est_usd)]]
    ELSE map

\* WindowTable::mark_backpressure at time t
mark_backpressure(map, key, t) ==
    IF key \in DOMAIN map
    THEN [map EXCEPT ![key] = [@ EXCEPT !.last_backpressure = Some(t)]]
    ELSE map

\* under_pressure with the bound of the window included
under_pressure_inclusive(map, key, t) ==
    IF key \in DOMAIN map /\ map[key].last_backpressure # None
    THEN t - map[key].last_backpressure[1] <= PressureMs
    ELSE FALSE

\* WindowTable::under_pressure at time t
under_pressure(map, key, t) ==
    IF key \in DOMAIN map /\ map[key].last_backpressure # None
    THEN t - map[key].last_backpressure[1] < PressureMs
    ELSE FALSE

-----------------------------------------------------------------------------
(* consensus.rs.  A text is the sequence of its bytes (ASCII). *)

\* let dim = 128
Dim == 128
\* let mut x: u64 = 1469598103934665603 (0x14650fb0739d0383), modulo 128
OffsetBasisLow == 3
\* 1099511628211 (0x100000001b3) modulo 128
PrimeLow == 51

IsUpper(c) == c >= 65 /\ c <= 90
IsAlnum(c) == (c >= 48 /\ c <= 57) \/ (c >= 65 /\ c <= 90) \/ (c >= 97 /\ c <= 122)

\* s.to_lowercase().replace(|c| !c.is_alphanumeric() && c != ' ', " ")
normalize(s) ==
    [i \in 1..Len(s) |->
        LET c == IF IsUpper(s[i]) THEN s[i] + 32 ELSE s[i]
        IN  IF IsAlnum(c) \/ c = 32 THEN c ELSE 32]

\* split_whitespace: the maximal runs of non-space bytes, in order
RECURSIVE split_from(_, _, _, _)
split_from(s, i, cur, acc) ==
    IF i > Len(s) THEN (IF cur = <<>> THEN acc ELSE Append(acc, cur))
    ELSE IF s[i] = 32
         THEN split_from(s, i + 1, <<>>, IF cur = <<>> THEN acc ELSE Append(acc, cur))
         ELSE split_from(s, i + 1, Append(cur, s[i]), acc)
split_whitespace(s) == split_from(s, 1, <<>>, <<>>)

\* bitwise xor of the low n bits
RECURSIVE xor_bits(_, _, _)
xor_bits(a, b, n) ==
    IF n = 0 THEN 0
    ELSE (((a % 2) + (b % 2)) % 2) + 2 * xor_bits(a \div 2, b \div 2, n - 1)

\* (x % dim) of the wrapping 64-bit hash loop of embed.  dim = 2^7 divides
\* 2^64, so the low 7 bits of x after each xor and wrapping_mul depend only
\* on the low 7 bits before it: the loop is run modulo 128.
RECURSIVE hash_idx(_, _, _)
hash_idx(token, i, x) ==
    IF i > Len(token) THEN x % Dim
    ELSE hash_idx(token, i + 1, (xor_bits(x, token[i] % Dim, 7) * PrimeLow) % Dim)

\* embed before the division by the norm: bucket -> count, for the buckets hit
embed_counts(s) ==
    LET toks == split_whitespace(normalize(s))
        idx == [k \in 1..Len(toks) |-> hash_idx(toks[k], 1, OffsetBasisLow)]
        hit == {idx[k] : k \in 1..Len(toks)}
    IN  [b \in hit |-> Cardinality({k \in 1..Len(toks) : idx[k] = b})]

\* the content_json texts adapters produce: "a", "a a b", "A,b"
TextA == <<97>>
TextAAB == <<97, 32, 97, 32, 98>>
TextAb == <<65, 44, 98>>
Texts == {TextA, TextAAB, TextAb}

\* the embeddings of the texts, computed once
\* serde_json::Value::to_string of a JSON string that needs no escape: the
\* text between double quotes
json_to_string(c) == <<34>> \o c \o <<34>>

EmbedTable == [s \in {json_to_string(t) : t \in Texts} |-> embed_counts(s)]
embed(s) == IF s \in DOMAIN EmbedTable THEN EmbedTable[s] ELSE embed_counts(s)

RECURSIVE SumOver(_, _)
SumOver(f, S) ==
    IF S = {} THEN 0
    ELSE LET x == CHOOSE y \in S : TRUE IN f[x] + SumOver(f, S \ {x})

Dot(a, b) ==
    LET common == DOMAIN a \cap DOMAIN b
    IN  SumOver([x \in common |-> a[x] * b[x]], common)

\* cosine(embed(s), embed(t)) >= 0.85.  embed divides by max(norm, 1e-6), so
\* the cosine is Dot/sqrt(Dot(a,a)*Dot(b,b)), and 0 when a text has no token;
\* 0.85^2 = 289/400.  (f32 rounding is not modelled: no text of the model
\* has a cosine within rounding distance of 0.85.)
cosine_ge(a, b) ==
    LET d == Dot(a, b)
        na == Dot(a, a)
        nb == Dot(b, b)
    IN  na > 0 /\ nb > 0 /\ 400 * d * d >= 289 * na * nb

Min(S) == CHOOSE x \in S : \A y \in S : x <= y

\* the clustering loop without the break of line 34: final i joins every
\* group whose representative it resembles
RECURSIVE cluster_no_break(_, _, _, _)
cluster_no_break(vecs, i, groups, reps) ==
    IF i >= Len(vecs) THEN [groups |-> groups, reps |-> reps]
    ELSE LET hits == {g \in 1..Len(reps) : cosine_ge(vecs[i + 1], vecs[reps[g] + 1])}
         IN  IF hits # {}
             THEN cluster_no_break(vecs, i + 1,
                      [g \in 1..Len(groups) |->
                          IF g \in hits THEN Append(groups[g], i) ELSE groups[g]], reps)
             ELSE cluster_no_break(vecs, i + 1, Append(groups, <<i>>), Append(reps, i))

\* the clustering loop taking the last matching representative instead of
\* the first (the inner loop of line 33 without its break, keeping one push)
RECURSIVE cluster_last_match(_, _, _, _)
cluster_last_match(vecs, i, groups, reps) ==
    IF i >= Len(vecs) THEN [groups |-> groups, reps |-> reps]
    ELSE LET hits == {g \in 1..Len(reps) : cosine_ge(vecs[i + 1], vecs[reps[g] + 1])}
             last == CHOOSE g \in hits : \A h \in hits : h <= g
         IN  IF hits # {}
             THEN cluster_last_match(vecs, i + 1, [groups EXCEPT ![last] = Append(@, i)], reps)
             ELSE cluster_last_match(vecs, i + 1, Append(groups, <<i>>), Append(reps, i))

\* the clustering loop of compute, from final i on (indices are 0-based as in
\* the source; vecs[i + 1] is the embedding of final i)
RECURSIVE cluster(_, _, _, _)
cluster(vecs, i, groups, reps) ==
    IF i >= Len(vecs) THEN [groups |-> groups, reps |-> reps]
    ELSE LET hits == {g \in 1..Len(reps) : cosine_ge(vecs[i + 1], vecs[reps[g] + 1])}
         IN  IF hits # {}
             THEN cluster(vecs, i + 1, [groups EXCEPT ![Min(hits)] = Append(@, i)], reps)
             ELSE cluster(vecs, i + 1, Append(groups, <<i>>), Append(reps, i))

\* a score g/n is kept as the pair <<g, n>>
MaxOf(a, b) == IF a >= b THEN a ELSE b

\* the clustering loop run from the last final to the first
RECURSIVE cluster_newest_first(_, _, _, _)
cluster_newest_first(vecs, n, groups, reps) ==
    IF n = 0 THEN [groups |-> groups, reps |-> reps]
    ELSE LET i == n - 1
             hits == {g \in 1..Len(reps) : cosine_ge(vecs[i + 1], vecs[reps[g] + 1])}
         IN  IF hits # {}
             THEN cluster_newest_first(vecs, i, [groups EXCEPT ![Min(hits)] = Append(@, i)], reps)
             ELSE cluster_newest_first(vecs, i, Append(groups, <<i>>), Append(reps, i))

\* compute with the loop of line 30 as (0..vecs.len()).rev()
compute_newest_first(finals_json) ==
    LET vecs == [k \in 1..Len(finals_json) |-> embed(finals_json[k])]
        c == cluster_newest_first(vecs, Len(vecs), <<>>, <<>>)
    IN  [finals |-> finals_json,
         representatives |-> [g \in 1..Len(c.reps) |-> <<c.reps[g], finals_json[c.reps[g] + 1]>>],
         groups |-> c.groups,
         scores |-> [g \in 1..Len(c.groups) |->
                        <<Len(c.groups[g]), IF Len(finals_json) >= 1 THEN Len(finals_json) ELSE 1>>]]

\* consensus::compute
compute(finals_json) ==
    LET vecs == [k \in 1..Len(finals_json) |-> embed(finals_json[k])]
        c == cluster(vecs, 0, <<>>, <<>>)
    IN  [finals |-> finals_json,
         representatives |-> [g \in 1..Len(c.reps) |-> <<c.reps[g], finals_json[c.reps[g] + 1]>>],
         groups |-> c.groups,
         scores |-> [g \in 1..Len(c.groups) |->
                        <<Len(c.groups[g]), MaxOf(Len(finals_json), 1)>>]]

(* scores as fractions *)
RatLess(a, b) == a[1] * b[2] < b[1] * a[2]
RatZero == <<0, 1>>
\* scores.iter().cloned().fold(0.0, f32::max)
fold_max(scores) ==
    IF scores = <<>> THEN RatZero
    ELSE LET S == {scores[k] : k \in 1..Len(scores)} \cup {RatZero}
         IN  CHOOSE x \in S : \A y \in S : ~RatLess(x, y)
\* scores.iter().cloned().reduce(f32::max)
reduce_max(scores) == IF scores = <<>> THEN None ELSE Some(fold_max(scores))
\* top >= 0.66
\* the threshold of line 276 at one half
ge_half(top) == 100 * top[1] >= 50 * top[2]

ge_066(top) == 100 * top[1] >= 66 * top[2]
\* the operands of line 302 exchanged: provisional_conf + 0.05 < top
downgraded_swapped(top, conf) == 20 * conf[1] * top[2] + conf[2] * top[2] < 20 * top[1] * conf[2]

\* top + 0.05 < provisional_conf
downgraded(top, conf) == 20 * top[1] * conf[2] + top[2] * conf[2] < 20 * conf[1] * top[2]

-----------------------------------------------------------------------------
(* Frames and the inputs the environment supplies *)

\* str::to_lowercase on the qos strings of the model
to_lowercase(q) ==
    CASE q = "Gold" -> "gold"
      [] q = "SILVER" -> "silver"
      [] q = "Bronze" -> "bronze"
      [] OTHER -> q

\* lane_from_qos
lane_from_qos(q) ==
    LET l == to_lowercase(q)
    IN  IF l = "gold" THEN "Gold" ELSE IF l = "silver" THEN "Silver" ELSE "Bronze"

\* format!("{}:{}", frame.session_id, frame.stream_id)
key_of(frame) == frame.session_id \o ":" \o frame.stream_id

Window(mp, mt, mu) == [max_parallel |-> mp, max_tokens |-> mt, max_usd_micros |-> mu]

\* the (session_id, stream_id) pairs of the requests
ReqIds == {<<"s1", "a">>, <<"s1", "b">>}
\* the qos strings of the requests
QosValues == {"gold", "SILVER", "Bronze", "platinum"}
\* the keys of the window table these requests use
Keys == {id[1] \o ":" \o id[2] : id \in ReqIds}
\* the windows the requests carry
WindowChoices == {Window(1, 1, 1), Window(2, 2, 3)}

MkFrame(id, q, w, ttl) ==
    [session_id |-> id[1], stream_id |-> id[2], qos |-> q, ttl |-> ttl, window |-> w]

\* the frames of the work items handed to process_request (handle_socket
\* enqueues only frames with ttl > 0)
Frames == {MkFrame(id, q, w, 2) : id \in ReqIds, q \in QosValues, w \in WindowChoices}

\* one adapter's answer to cli.estimate: None for a failed connection or rpc,
\* Some(<<in_tokens + out_tokens, usd_micros>>) otherwise
EstimateResults == {None, Some(<<1, 2>>), Some(<<2, 1>>)}

\* the payload types an adapter chunk may carry
ChunkTypes == {"agent.result.partial", "agent.result.final"}
\* str::ends_with("final") on the payload types of the model
ends_with_final(t) == t = "agent.result.final"


-----------------------------------------------------------------------------
(* process_request *)

NoFrame == MkFrame(<<"", "">>, "", Window(0, 0, 0), 0)

IdleProc ==
    [pc |-> "idle", frame |-> NoFrame, key |-> "", need_tokens |-> 0, need_usd |-> 0,
     tasks |-> <<>>, nsent |-> <<>>, rx |-> <<>>, finals |-> <<>>,
     provisional_sent |-> FALSE, provisional_conf |-> RatZero, start_t |-> 0]

\* frame.ttl-1 on a u8: 0 - 1 wraps to 255 in a release build (and panics in
\* a debug build)
ttl_minus_1(ttl) == (ttl + 255) % 256

\* what process_request sends on item.reply_tx
Reply(kind, body) == [kind |-> kind, body |-> body]
\* what an adapter task sends on the aggregation channel; a chunk carries the
\* ttl of line 203, an error sentinel or a stats message carries none
AggMsg(kind, ep, n, type, content, ttl) ==
    [kind |-> kind, adapter |-> ep, seq |-> n, type |-> type, content |-> content,
     ttl |-> IF kind = "chunk" THEN Some(ttl) ELSE None]
\* a WindowTable call, as logged
Call(op, key, tokens, usd, ok) ==
    [op |-> op, key |-> key, tokens |-> tokens, usd |-> usd, ok |-> ok]

Send(p, msg) == sent' = [sent EXCEPT ![p] = Append(@, msg)]
Log(p, c) == calls' = [calls EXCEPT ![p] = Append(@, c)]

SchedUnchanged ==
    UNCHANGED <<order, lanes, sel, dispatched, saturated, wsOut, held, cons, frag, reasm,
                cksum, out>>

RECURSIVE SumEst(_, _, _)
SumEst(est, i, k) ==
    IF i > Len(est) THEN 0
    ELSE (IF est[i] = None THEN 0 ELSE est[i][1][k]) + SumEst(est, i + 1, k)

\* a task that has returned: its locals are gone
DoneProc == [IdleProc EXCEPT !.pc = "done"]

\* lines 136-154: the task spawned for a work item runs up to the call of
\* admit.  The policy oracle's answer (allow) and the adapters' answers to
\* estimate (est[i] for endpoint i) are inputs; estimate_costs sums the
\* estimates, a failed one adding nothing.  The task takes the lowest free
\* slot p; sent[p] and calls[p] start empty for it.
StartTask(p, f, allow, est) ==
    /\ proc[p].pc \in {"idle", "done"}
    /\ \A q \in ProcIds : q < p => proc[q].pc \notin {"idle", "done"}
    /\ calls' = [calls EXCEPT ![p] = <<>>]
    /\ IF allow
       THEN /\ proc' = [proc EXCEPT ![p] =
                          [IdleProc EXCEPT !.pc = "admit",
                                           !.frame = f,
                                           !.need_tokens = SumEst(est, 1, 1),
                                           !.need_usd = SumEst(est, 1, 2),
                                           !.key = key_of(f)]]
            /\ sent' = [sent EXCEPT ![p] = <<>>]
       ELSE /\ proc' = [proc EXCEPT ![p] = DoneProc]
            /\ sent' = [sent EXCEPT ![p] = <<Reply("policy_denied", <<>>)>>]

Start(p, f, allow, est) ==
    /\ StartTask(p, f, allow, est)
    /\ UNCHANGED <<now, windows, endpoints>>
    /\ SchedUnchanged

\* Admit without the return of line 159: a refused run goes on
Admit_NoReturn(p) ==
    /\ proc[p].pc = "admit"
    /\ LET q == proc[p]
           r == admit(windows, q.key, q.frame.window, q.need_tokens, q.need_usd)
       IN  /\ windows' = r.map
           /\ Log(p, Call("admit", q.key, q.need_tokens, q.need_usd, r.ok))
           /\ proc' = [proc EXCEPT ![p].pc = "pressure"]
           /\ IF r.ok THEN UNCHANGED sent ELSE Send(p, Reply("BUSY", <<>>))
    /\ UNCHANGED <<now, endpoints>>
    /\ SchedUnchanged

\* lines 155-160, up to the BUSY reply
Admit(p) ==
    /\ proc[p].pc = "admit"
    /\ LET q == proc[p]
           r == admit(windows, q.key, q.frame.window, q.need_tokens, q.need_usd)
       IN  /\ windows' = r.map
           /\ Log(p, Call("admit", q.key, q.need_tokens, q.need_usd, r.ok))
           /\ IF r.ok
              THEN /\ proc' = [proc EXCEPT ![p].pc = "pressure"]
                   /\ UNCHANGED sent
              ELSE /\ proc' = [proc EXCEPT ![p].pc = "mark"]
                   /\ Send(p, Reply("BUSY", <<>>))
    /\ UNCHANGED <<now, endpoints>>
    /\ SchedUnchanged

\* line 157, and the return of line 159
MarkBackpressure(p) ==
    /\ proc[p].pc = "mark"
    /\ windows' = mark_backpressure(windows, proc[p].key, now)
    /\ Log(p, Call("mark_backpressure", proc[p].key, 0, 0, TRUE))
    /\ proc' = [proc EXCEPT ![p] = DoneProc]
    /\ UNCHANGED <<now, endpoints, sent>>
    /\ SchedUnchanged

\* the test of line 162
is_bronze(frame) == to_lowercase(frame.qos) = "bronze"

AckFrame(frame) == Reply("ACK", [ttl |-> ttl_minus_1(frame.ttl)])

\* Pressure without the ack of line 165: the shed run returns at once
Pressure_NoRelease(p) ==
    /\ proc[p].pc = "pressure"
    /\ LET q == proc[p]
           up == under_pressure(windows, q.key, now)
       IN  /\ Log(p, Call("under_pressure", q.key, 0, 0, up))
           /\ IF up /\ is_bronze(q.frame)
              THEN /\ Send(p, Reply("ECN", <<>>))
                   /\ proc' = [proc EXCEPT ![p] = DoneProc]
              ELSE /\ Send(p, AckFrame(q.frame))
                   /\ proc' = [proc EXCEPT ![p] =
                                 [@ EXCEPT !.pc = "loop",
                                           !.tasks = [i \in 1..Len(endpoints) |-> "connect"],
                                           !.nsent = [i \in 1..Len(endpoints) |-> 0],
                                           !.start_t = now]]
    /\ UNCHANGED <<now, windows, endpoints>>
    /\ SchedUnchanged

\* lines 161-241: the pressure test, then either the ECN reply or the ACK
\* and the fan-out: one task is spawned per endpoint, each holding a clone of
\* tx, tx itself is dropped, and start_t = Instant::now().  (The estimates of
\* lines 181-190 feed metrics only.)
Pressure(p) ==
    /\ proc[p].pc = "pressure"
    /\ LET q == proc[p]
           up == under_pressure(windows, q.key, now)
       IN  /\ Log(p, Call("under_pressure", q.key, 0, 0, up))
           /\ IF up /\ is_bronze(q.frame)
              THEN /\ Send(p, Reply("ECN", <<>>))
                   /\ proc' = [proc EXCEPT ![p].pc = "shed"]
              ELSE /\ Send(p, AckFrame(q.frame))
                   /\ proc' = [proc EXCEPT ![p] =
                                 [@ EXCEPT !.pc = "loop",
                                           !.tasks = [i \in 1..Len(endpoints) |-> "connect"],
                                           !.nsent = [i \in 1..Len(endpoints) |-> 0],
                                           !.start_t = now]]
    /\ UNCHANGED <<now, windows, endpoints>>
    /\ SchedUnchanged

\* line 165 (after the ECN reply) and line 318 (after FIN)
Release(p) ==
    /\ proc[p].pc \in {"shed", "release"}
    /\ LET q == proc[p]
       IN  /\ windows' = ack(windows, q.key, q.need_tokens, q.need_usd)
           /\ Log(p, Call("ack", q.key, q.need_tokens, q.need_usd, TRUE))
    /\ proc' = [proc EXCEPT ![p] = DoneProc]
    /\ UNCHANGED <<now, endpoints, sent>>
    /\ SchedUnchanged

\* txc.send(m).await of adapter task i, which then is in state st
AdapterSend(p, i, kind, type, content, st) ==
    /\ Len(proc[p].rx) < AggCapacity
    /\ proc' = [proc EXCEPT ![p] =
                  [@ EXCEPT !.rx = Append(@, AggMsg(kind, endpoints[i], proc[p].nsent[i], type, content,
                                                    ttl_minus_1(proc[p].frame.ttl))),
                            !.nsent[i] = @ + 1,
                            !.tasks[i] = st]]
    /\ UNCHANGED <<now, windows, endpoints, sent, calls>>
    /\ SchedUnchanged

\* line 210: the connection fails; the task sends the sentinel and returns
AdapterConnectErr(p, i) ==
    /\ proc[p].pc = "loop"
    /\ i \in 1..Len(proc[p].tasks)
    /\ proc[p].tasks[i] = "connect"
    /\ AdapterSend(p, i, "error", "connect", <<>>, "ended")

\* line 231: cli.stream fails; the stats message of line 233 is still to come
AdapterRpcErr(p, i) ==
    /\ proc[p].pc = "loop"
    /\ i \in 1..Len(proc[p].tasks)
    /\ proc[p].tasks[i] = "connect"
    /\ AdapterSend(p, i, "error", "rpc", <<>>, "stats")

\* lines 216-229: one chunk of the adapter's stream is forwarded; at most
\* maxChunks chunks are produced for one request
AdapterChunk(p, i, type, content, maxChunks) ==
    /\ proc[p].pc = "loop"
    /\ i \in 1..Len(proc[p].tasks)
    /\ proc[p].tasks[i] \in {"connect", "stream"}
    /\ Cardinality({m \in 1..Len(proc[p].rx) : proc[p].rx[m].kind = "chunk"})
         + Cardinality({m \in 1..Len(sent[p]) : sent[p][m].kind = "partial"}) < maxChunks
    /\ AdapterSend(p, i, "chunk", type, content, "stream")

\* line 233: the stream has ended (or failed); the task sends its stats and ends
AdapterEnd(p, i) ==
    /\ proc[p].pc = "loop"
    /\ i \in 1..Len(proc[p].tasks)
    /\ proc[p].tasks[i] \in {"connect", "stream", "stats"}
    /\ AdapterSend(p, i, "stats", "", <<>>, "ended")

ProvisionalFrame(frame, pcs) ==
    Reply("provisional", [ttl |-> ttl_minus_1(frame.ttl), finals |-> pcs.finals,
                          groups |-> pcs.groups, scores |-> pcs.scores])

\* Recv with break for the continue of line 246: an error sentinel ends the
\* aggregation, the other adapters' messages are dropped
Recv_ErrorBreaks(p) ==
    /\ proc[p].pc = "loop"
    /\ proc[p].rx # <<>>
    /\ LET q == proc[p]
           msgv == Head(q.rx)
       IN  IF msgv.kind = "error"
           THEN /\ Send(p, Reply("adapter_error", msgv))
                /\ proc' = [proc EXCEPT ![p] =
                              [@ EXCEPT !.rx = <<>>,
                                        !.tasks = [i \in 1..Len(q.tasks) |-> "ended"]]]
           ELSE IF msgv.kind = "stats"
           THEN /\ UNCHANGED sent
                /\ proc' = [proc EXCEPT ![p].rx = Tail(@)]
           ELSE LET fin == IF ends_with_final(msgv.type)
                           THEN Append(q.finals, json_to_string(msgv.content)) ELSE q.finals
                    pcs == compute(fin)
                    top == fold_max(pcs.scores)
                    emit == /\ ends_with_final(msgv.type)
                            /\ ~q.provisional_sent
                            /\ Len(fin) >= 2
                            /\ (ge_066(top) \/ now - q.start_t > ProvisionalMs)
                IN  /\ sent' = [sent EXCEPT ![p] =
                                  IF emit
                                  THEN @ \o <<Reply("partial", msgv), ProvisionalFrame(q.frame, pcs)>>
                                  ELSE Append(@, Reply("partial", msgv))]
                    /\ proc' = [proc EXCEPT ![p] =
                                  [@ EXCEPT !.rx = Tail(@),
                                            !.finals = fin,
                                            !.provisional_sent = IF emit THEN TRUE ELSE @,
                                            !.provisional_conf = IF emit THEN top ELSE @]]
    /\ UNCHANGED <<now, windows, endpoints, calls>>
    /\ SchedUnchanged

\* lines 243-294: one iteration of the aggregation loop
Recv(p) ==
    /\ proc[p].pc = "loop"
    /\ proc[p].rx # <<>>
    /\ LET q == proc[p]
           msgv == Head(q.rx)
       IN  IF msgv.kind = "error"
           THEN /\ Send(p, Reply("adapter_error", msgv))
                /\ proc' = [proc EXCEPT ![p].rx = Tail(@)]
           ELSE IF msgv.kind = "stats"
           THEN /\ UNCHANGED sent
                /\ proc' = [proc EXCEPT ![p].rx = Tail(@)]
           ELSE LET fin == IF ends_with_final(msgv.type)
                           THEN Append(q.finals, json_to_string(msgv.content)) ELSE q.finals
                    pcs == compute(fin)
                    top == fold_max(pcs.scores)
                    emit == /\ ends_with_final(msgv.type)
                            /\ ~q.provisional_sent
                            /\ Len(fin) >= 2
                            /\ (ge_066(top) \/ now - q.start_t > ProvisionalMs)
                IN  /\ sent' = [sent EXCEPT ![p] =
                                  IF emit
                                  THEN @ \o <<Reply("partial", msgv), ProvisionalFrame(q.frame, pcs)>>
                                  ELSE Append(@, Reply("partial", msgv))]
                    /\ proc' = [proc EXCEPT ![p] =
                                  [@ EXCEPT !.rx = Tail(@),
                                            !.finals = fin,
                                            !.provisional_sent = IF emit THEN TRUE ELSE @,
                                            !.provisional_conf = IF emit THEN top ELSE @]]
    /\ UNCHANGED <<now, windows, endpoints, calls>>
    /\ SchedUnchanged

FinFrame(frame, cs) ==
    Reply("FIN", [ttl |-> ttl_minus_1(frame.ttl), finals |-> cs.finals,
                  representatives |-> cs.representatives,
                  groups |-> cs.groups, scores |-> cs.scores])

\* Final with the FIN sent before the downgrade
Final_FinFirst(p) ==
    /\ proc[p].pc = "loop"
    /\ proc[p].rx = <<>>
    /\ \A i \in 1..Len(proc[p].tasks) : proc[p].tasks[i] = "ended"
    /\ LET q == proc[p]
           cs == compute(q.finals)
           top == reduce_max(cs.scores)
           down == top # None /\ q.provisional_sent /\ downgraded(top[1], q.provisional_conf)
       IN  sent' = [sent EXCEPT ![p] =
                      IF down
                      THEN @ \o <<FinFrame(q.frame, cs),
                                  Reply("DOWNGRADED", [from |-> q.provisional_conf, to |-> top[1]])>>
                      ELSE Append(@, FinFrame(q.frame, cs))]
    /\ proc' = [proc EXCEPT ![p].pc = "release"]
    /\ UNCHANGED <<now, windows, endpoints, calls>>
    /\ SchedUnchanged

\* Final that leaves the loop as soon as the channel is empty, whether or not
\* a sender is left
Final_NoJoin(p) ==
    /\ proc[p].pc = "loop"
    /\ proc[p].rx = <<>>
    /\ LET q == proc[p]
           cs == compute(q.finals)
           top == reduce_max(cs.scores)
           down == top # None /\ q.provisional_sent /\ downgraded(top[1], q.provisional_conf)
       IN  sent' = [sent EXCEPT ![p] =
                      IF down
                      THEN @ \o <<Reply("DOWNGRADED", [from |-> q.provisional_conf, to |-> top[1]]),
                                  FinFrame(q.frame, cs)>>
                      ELSE Append(@, FinFrame(q.frame, cs))]
    /\ proc' = [proc EXCEPT ![p].pc = "release"]
    /\ UNCHANGED <<now, windows, endpoints, calls>>
    /\ SchedUnchanged

\* lines 243 and 295-317: rx.recv() returns None once every clone of tx is
\* dropped and the channel is empty; the tasks are joined, the final consensus
\* is computed, the downgrade (if any) and the FIN are sent
Final(p) ==
    /\ proc[p].pc = "loop"
    /\ proc[p].rx = <<>>
    /\ \A i \in 1..Len(proc[p].tasks) : proc[p].tasks[i] = "ended"
    /\ LET q == proc[p]
           cs == compute(q.finals)
           top == reduce_max(cs.scores)
           down == top # None /\ q.provisional_sent /\ downgraded(top[1], q.provisional_conf)
       IN  sent' = [sent EXCEPT ![p] =
                      IF down
                      THEN @ \o <<Reply("DOWNGRADED", [from |-> q.provisional_conf, to |-> top[1]]),
                                  FinFrame(q.frame, cs)>>
                      ELSE Append(@, FinFrame(q.frame, cs))]
    /\ proc' = [proc EXCEPT ![p].pc = "release"]
    /\ UNCHANGED <<now, windows, endpoints, calls>>
    /\ SchedUnchanged

\* time passes
Tick(d) ==
    /\ now + d <= MaxTime
    /\ now' = now + d
    /\ UNCHANGED <<windows, endpoints, proc, sent, calls>>
    /\ SchedUnchanged

-----------------------------------------------------------------------------
(* handle_socket and the dispatcher of SCHED *)

\* frames a session may receive
MaxRecv == 10
\* mpsc::channel::<WorkItem>(256)
LaneCapacity == 256

Lanes == {"Gold", "Silver", "Bronze"}

\* line 70: the rotation
InitialOrder ==
    <<"Gold", "Gold", "Gold", "Gold", "Gold", "Silver", "Silver", "Silver", "Bronze">>

SchedInit ==
    /\ order = InitialOrder
    /\ lanes = [l \in Lanes |-> <<>>]
    /\ sel = None
    /\ dispatched = <<>>
    /\ saturated = TRUE
    /\ wsOut = <<>>

ProcUnchanged ==
    UNCHANGED <<now, windows, endpoints, proc, sent, calls, held, cons, frag, reasm, cksum,
                out>>

\* the qos strings and ttl values of the frames a session receives
SchedQos == {"gold", "SILVER", "Bronze", "platinum"}
SchedTtl == {0, 1}

NumEnqueued(l) ==
    Len(lanes[l]) + Cardinality({k \in 1..Len(dispatched) : dispatched[k].lane = l})

\* Receive without the test of line 369: a frame with ttl 0 is enqueued too
Receive_NoTtlCheck(q, ttl) ==
    /\ Len(wsOut) + Len(dispatched) + Len(lanes["Gold"]) + Len(lanes["Silver"])
         + Len(lanes["Bronze"]) < MaxRecv
    /\ LET lane == lane_from_qos(q)
           item == [lane |-> lane, n |-> NumEnqueued(lane) + 1, qos |-> q, ttl |-> ttl]
       IN  /\ Len(lanes[lane]) < LaneCapacity
           /\ lanes' = [lanes EXCEPT ![lane] = Append(@, item)]
           /\ UNCHANGED wsOut
    /\ UNCHANGED <<order, sel, dispatched, saturated>>
    /\ ProcUnchanged

\* lines 356-376: a text frame that parses.  n numbers the items of a lane in
\* the order of their arrival.
Receive(q, ttl) ==
    /\ Len(wsOut) + Len(dispatched) + Len(lanes["Gold"]) + Len(lanes["Silver"])
         + Len(lanes["Bronze"]) < MaxRecv
    /\ IF ttl = 0
       THEN /\ wsOut' = Append(wsOut, "ttl_expired")
            /\ UNCHANGED lanes
       ELSE LET lane == lane_from_qos(q)
                item == [lane |-> lane, n |-> NumEnqueued(lane) + 1, qos |-> q, ttl |-> ttl]
            IN  /\ Len(lanes[lane]) < LaneCapacity
                /\ lanes' = [lanes EXCEPT ![lane] = Append(@, item)]
                /\ UNCHANGED wsOut
    /\ UNCHANGED <<order, sel, dispatched, saturated>>
    /\ ProcUnchanged

\* the lane taken from the front is put back at the front
rotate_front(o) == o

\* order.pop_front() then order.push_back(l)
rotate(o) == Append(Tail(o), Head(o))

\* a dispatcher that passes over a slot whose lane is empty (try_recv instead
\* of recv().await)
Select_SkipsEmpty ==
    /\ sel = None
    /\ order' = rotate(order)
    /\ sel' = IF lanes[Head(order)] = <<>> THEN None ELSE Some(Head(order))
    /\ saturated' = (saturated /\ lanes[Head(order)] # <<>>)
    /\ UNCHANGED <<lanes, dispatched, wsOut>>
    /\ ProcUnchanged

\* lines 74-80: the dispatcher takes the next lane of the rotation and starts
\* to receive from it
Select ==
    /\ sel = None
    /\ order' = rotate(order)
    /\ sel' = Some(Head(order))
    /\ saturated' = (saturated /\ lanes[Head(order)] # <<>>)
    /\ UNCHANGED <<lanes, dispatched, wsOut>>
    /\ ProcUnchanged

\* recv() returning the newest item of the selected lane
Recv_Lane_Newest ==
    /\ sel # None
    /\ lanes[sel[1]] # <<>>
    /\ dispatched' = Append(dispatched, lanes[sel[1]][Len(lanes[sel[1]])])
    /\ lanes' = [lanes EXCEPT ![sel[1]] = SubSeq(@, 1, Len(@) - 1)]
    /\ sel' = None
    /\ UNCHANGED <<order, saturated, wsOut>>

\* lines 77-82: recv() on the selected lane returns its oldest item (the
\* senders live in SCHED, so it never returns None) and a processor is spawned
Recv_Lane ==
    /\ sel # None
    /\ lanes[sel[1]] # <<>>
    /\ dispatched' = Append(dispatched, Head(lanes[sel[1]]))
    /\ lanes' = [lanes EXCEPT ![sel[1]] = Tail(@)]
    /\ sel' = None
    /\ UNCHANGED <<order, saturated, wsOut>>

Dispatch ==
    /\ Recv_Lane
    /\ ProcUnchanged

-----------------------------------------------------------------------------
(* The request processor, one request after the other *)

\* line 148: the default endpoint list
DefaultEndpoints == <<"http://persona_adapter:7070", "http://ollama_adapter:7070">>

\* chunks the adapters of one request produce at most, in FanSpec
MaxChunks == 3

\* the table has had no call, and its users owe none
Reservation(key, tokens, usd) == [key |-> key, tokens |-> tokens, usd |-> usd]

NoCall == [op |-> "none", r |-> Reservation("", 0, 0), w |-> Window(0, 0, 0),
           ok |-> FALSE, fresh |-> FALSE, pre |-> WindowStateDefault]

HeldInit == [res |-> EmptyBag, marks |-> {}, last |-> NoCall]

ProcInit ==
    /\ now = 0
    /\ windows = <<>>
    /\ proc = [p \in ProcIds |-> IdleProc]
    /\ sent = [p \in ProcIds |-> <<>>]
    /\ calls = [p \in ProcIds |-> <<>>]
    /\ held = HeldInit

-----------------------------------------------------------------------------
(* atp-schema: checksum, fragmentation and reassembly of frames (lib.rs) *)

\* The fields of Frame that the library reads or writes.  A String is the
\* sequence of its UTF-8 bytes.  payload.content is Some(text) for the JSON
\* object {"text": text} and None for a JSON value without a string "text".
\* The other fields of Frame are the same in every frame of the model.
SchemaFrame(frag_seq, flags, content, sig, checksum) ==
    [frag_seq |-> frag_seq, flags |-> flags, content |-> content,
     sig |-> sig, checksum |-> checksum]

\* flags.iter().any(|x| x=="MORE")
has_more(f) == \E i \in 1..Len(f.flags) : f.flags[i] = "MORE"
\* flags.retain(|fl| fl != "MORE")
IsNotMore(x) == x # "MORE"
retain_not_more(flags) == SelectSeq(flags, IsNotMore)

\* hex of Sha256 of the serialized value.  The digest is kept as the value
\* it was computed from, tagged: equal values give equal digests and, as for
\* SHA-256 in practice, different values give different digests.
sha256_hex(value) == <<"sha256", value>>

\* compute_checksum without obj.remove("sig")
compute_checksum_keeps_sig(f) ==
    sha256_hex([frag_seq |-> f.frag_seq, flags |-> f.flags, content |-> f.content,
                sig |-> f.sig])

\* lines 92-96: serde_json::to_value(self), remove "checksum" and "sig" at
\* the top level, serialize, digest
compute_checksum(f) ==
    sha256_hex([frag_seq |-> f.frag_seq, flags |-> f.flags, content |-> f.content])

\* line 97
with_computed_checksum(f) == [f EXCEPT !.checksum = Some(compute_checksum(f))]

\* line 98
verify_checksum(f) == f.checksum # None /\ f.checksum[1] = compute_checksum(f)

\* line 102
validate_fragment_checksums(frames) ==
    \A i \in 1..Len(frames) : verify_checksum(frames[i])

\* U+FFFD in UTF-8
Replacement == <<239, 191, 189>>
IsCont(b) == b \in 128..191

\* String::from_utf8_lossy(bytes) from byte i on: well-formed one-, two- and
\* three-byte sequences are kept, any other byte becomes U+FFFD
RECURSIVE lossy_from(_, _)
lossy_from(b, i) ==
    IF i > Len(b) THEN <<>>
    ELSE IF b[i] < 128 THEN <<b[i]>> \o lossy_from(b, i + 1)
    ELSE IF b[i] \in 194..223 /\ i + 1 <= Len(b) /\ IsCont(b[i + 1])
         THEN <<b[i], b[i + 1]>> \o lossy_from(b, i + 2)
    ELSE IF b[i] \in 224..239 /\ i + 2 <= Len(b) /\ IsCont(b[i + 1]) /\ IsCont(b[i + 2])
         THEN <<b[i], b[i + 1], b[i + 2]>> \o lossy_from(b, i + 3)
    ELSE Replacement \o lossy_from(b, i + 1)
from_utf8_lossy(b) == lossy_from(b, 1)

\* bytes.chunks(n): chunk i (0-based) of the total_chunks chunks
chunk(bytes, n, i) ==
    SubSeq(bytes, i * n + 1, IF (i + 1) * n < Len(bytes) THEN (i + 1) * n ELSE Len(bytes))

\* lines 50-63
fragment_text_frame(base, text, max_fragment_bytes) ==
    IF Len(text) <= max_fragment_bytes
    THEN <<with_computed_checksum([base EXCEPT !.flags = retain_not_more(@)])>>
    ELSE LET total_chunks == (Len(text) + max_fragment_bytes - 1) \div max_fragment_bytes
         IN  [k \in 1..total_chunks |->
                 LET i == k - 1
                     f == [base EXCEPT
                             !.frag_seq = i,
                             !.content = Some(from_utf8_lossy(chunk(text, max_fragment_bytes, i))),
                             !.flags = IF i < total_chunks - 1
                                       THEN (IF has_more(base) THEN @ ELSE Append(@, "MORE"))
                                       ELSE retain_not_more(@)]
                 IN  with_computed_checksum(f)]

RECURSIVE concat_text(_, _)
\* the second loop of reassemble_text: push_str of every content that has a
\* string "text"
concat_text(frames, i) ==
    IF i > Len(frames) THEN <<>>
    ELSE (IF frames[i].content = None THEN <<>> ELSE frames[i].content[1])
            \o concat_text(frames, i + 1)

\* reassemble_text without the test of line 69: only the last frame's flag
\* is looked at
reassemble_text_last_only(frames) ==
    IF frames = <<>> THEN None
    ELSE IF \E k \in 1..Len(frames) :
                \/ frames[k].frag_seq # k - 1
                \/ (k = Len(frames) /\ has_more(frames[k]))
         THEN None
         ELSE Some(concat_text(frames, 1))

\* lines 65-75 (idx is 0-based in the source)
reassemble_text(frames) ==
    IF frames = <<>> THEN None
    ELSE IF \E k \in 1..Len(frames) :
                \/ frames[k].frag_seq # k - 1
                \/ (k < Len(frames) /\ ~has_more(frames[k]))
                \/ (k = Len(frames) /\ has_more(frames[k]))
         THEN None
         ELSE Some(concat_text(frames, 1))

\* Reassembler::default()
ReassemblerDefault == [expected_next |-> 0, buffer |-> <<>>, complete |-> FALSE]

\* push without the test of self.complete (line 81)
push_ignores_complete(r, frame) ==
    IF frame.frag_seq # r.expected_next THEN [self |-> r, ret |-> None]
    ELSE LET buffer == Append(r.buffer, frame)
         IN  IF ~has_more(frame)
             THEN [self |-> [expected_next |-> r.expected_next + 1, buffer |-> <<>>,
                             complete |-> TRUE],
                   ret |-> Some(buffer)]
             ELSE [self |-> [expected_next |-> r.expected_next + 1, buffer |-> buffer,
                             complete |-> r.complete],
                   ret |-> None]

\* push with expected_next advanced before the test of frag_seq (lines 82-83
\* exchanged)
push_counts_rejected(r, frame) ==
    IF r.complete THEN [self |-> r, ret |-> None]
    ELSE IF frame.frag_seq # r.expected_next
         THEN [self |-> [r EXCEPT !.expected_next = @ + 1], ret |-> None]
    ELSE LET buffer == Append(r.buffer, frame)
         IN  IF ~has_more(frame)
             THEN [self |-> [expected_next |-> r.expected_next + 1, buffer |-> <<>>,
                             complete |-> TRUE],
                   ret |-> Some(buffer)]
             ELSE [self |-> [expected_next |-> r.expected_next + 1, buffer |-> buffer,
                             complete |-> FALSE],
                   ret |-> None]

\* lines 80-88: Reassembler::push, as the pair of the reassembler after the
\* call and the value returned
push(r, frame) ==
    IF r.complete THEN [self |-> r, ret |-> None]
    ELSE IF frame.frag_seq # r.expected_next THEN [self |-> r, ret |-> None]
    ELSE LET is_last == ~has_more(frame)
             buffer == Append(r.buffer, frame)
         IN  IF is_last
             THEN [self |-> [expected_next |-> r.expected_next + 1, buffer |-> <<>>,
                             complete |-> TRUE],
                   ret |-> Some(buffer)]
             ELSE [self |-> [expected_next |-> r.expected_next + 1, buffer |-> buffer,
                             complete |-> FALSE],
                   ret |-> None]

\* no list of finals is under test
NoConsensus == [finals |-> <<>>, result |-> None]

\* the frame of the library's tests (sample_frame): fragment 0, flagged MORE,
\* content {"text": "h"}, neither signed nor summed
SampleFrame == SchemaFrame(0, <<"MORE">>, Some(<<104>>), None, None)

NoFragments ==
    [base |-> SampleFrame, text |-> <<>>, max |-> 1, frames |-> None, text_out |-> None]
NoPushes == [r |-> ReassemblerDefault, log |-> <<>>]
\* a frame as constructed or received, nothing called on it yet
Received(f) == [frame |-> f, last |-> "new"]
NoChecksum == Received(SampleFrame)
\* line 348: the out channel is empty, nothing was sent on it, the client is
\* connected and has got nothing
OutInit == [q |-> <<>>, n |-> 0, closed |-> FALSE, got |-> 0]

\* the harnesses of the library functions are idle
LibIdle ==
    /\ cons = NoConsensus
    /\ frag = NoFragments
    /\ reasm = NoPushes
    /\ cksum = NoChecksum
    /\ out = OutInit

\* ADAPTER_ENDPOINTS names one adapter
Init ==
    /\ ProcInit
    /\ endpoints = SubSeq(DefaultEndpoints, 1, 1)
    /\ SchedInit
    /\ LibIdle

\* Requests of every kind run one at a time; the adapter answers with at
\* most one chunk.
Next ==
    \/ \E f \in Frames, allow \in BOOLEAN,
          est \in [1..Len(endpoints) -> EstimateResults] : Start(1, f, allow, est)
    \/ Admit(1)
    \/ MarkBackpressure(1)
    \/ Pressure(1)
    \/ Release(1)
    \/ \E i \in 1..Len(endpoints) : AdapterConnectErr(1, i)
    \/ \E i \in 1..Len(endpoints) : AdapterRpcErr(1, i)
    \/ \E i \in 1..Len(endpoints), ty \in ChunkTypes : AdapterChunk(1, i, ty, TextA, 1)
    \/ \E i \in 1..Len(endpoints) : AdapterEnd(1, i)
    \/ Recv(1)
    \/ Final(1)
    \/ Tick(1000)

Spec == Init /\ [][Next]_vars

-----------------------------------------------------------------------------
(* The fan-out of one request at a time to the two default adapters *)

\* a gold request whose window admits it
FanFrames == {MkFrame(<<"s1", "a">>, "gold", Window(2, 2, 3), 2)}

FanEstimates == {Some(<<1, 1>>)}

\* two texts that fall in different groups
FanTexts == {TextA, TextAb}

FanInit ==
    /\ ProcInit
    /\ endpoints = DefaultEndpoints
    /\ SchedInit
    /\ LibIdle

\* The adapters stream up to MaxChunks chunks per request, partial or final,
\* the finals carrying either text.
FanNext ==
    \/ \E f \in FanFrames, allow \in BOOLEAN,
          est \in [1..Len(endpoints) -> FanEstimates] : Start(1, f, allow, est)
    \/ Admit(1)
    \/ Pressure(1)
    \/ Release(1)
    \/ \E i \in 1..Len(endpoints) : AdapterConnectErr(1, i)
    \/ \E i \in 1..Len(endpoints) : AdapterRpcErr(1, i)
    \/ \E i \in 1..Len(endpoints) : AdapterChunk(1, i, "agent.result.partial", TextA, MaxChunks)
    \/ \E i \in 1..Len(endpoints), c \in FanTexts :
          AdapterChunk(1, i, "agent.result.final", c, MaxChunks)
    \/ \E i \in 1..Len(endpoints) : AdapterEnd(1, i)
    \/ Recv(1)
    \/ Final(1)
    \/ Tick(700)

FanSpec == FanInit /\ [][FanNext]_vars

SchedNext ==
    \/ \E q \in SchedQos, ttl \in SchedTtl : Receive(q, ttl)
    \/ Select
    \/ Dispatch

SchedSpec == Init /\ [][SchedNext]_vars

-----------------------------------------------------------------------------
(* From the socket to the replies: handle_socket, the dispatcher and one
   processor at a time *)

\* frames received on the socket, and chunks per request
PipeRecv == 3
PipeChunks == 2

PipeQos == {"gold", "Bronze"}
PipeTtl == {0, 1, 2}

\* the frame of a work item: the frames of one stream differ in qos and ttl
FrameOfItem(item) == MkFrame(<<"s1", "a">>, item.qos, Window(2, 2, 3), item.ttl)

NumReceived == Len(wsOut) + Len(dispatched) + Len(lanes["Gold"]) + Len(lanes["Silver"])
               + Len(lanes["Bronze"])

\* lines 77-82 and 136-154: the dispatcher receives the oldest item of the
\* selected lane and spawns process_request for it, which runs up to admit
\* (the processor of the item before has returned)
Spawn(allow, est) ==
    /\ sel # None
    /\ lanes[sel[1]] # <<>>
    /\ Recv_Lane
    /\ StartTask(1, FrameOfItem(Head(lanes[sel[1]])), allow, est)
    /\ UNCHANGED <<now, windows, endpoints, held, cons, frag, reasm, cksum, out>>

PipeNext ==
    \/ \E q \in PipeQos, ttl \in PipeTtl : NumReceived < PipeRecv /\ Receive(q, ttl)
    \/ Select
    \/ \E allow \in BOOLEAN, est \in [1..Len(endpoints) -> FanEstimates] : Spawn(allow, est)
    \/ Admit(1)
    \/ Pressure(1)
    \/ Release(1)
    \/ \E i \in 1..Len(endpoints) : AdapterConnectErr(1, i)
    \/ \E i \in 1..Len(endpoints) : AdapterRpcErr(1, i)
    \/ \E i \in 1..Len(endpoints), ty \in ChunkTypes : AdapterChunk(1, i, ty, TextA, PipeChunks)
    \/ \E i \in 1..Len(endpoints) : AdapterEnd(1, i)
    \/ Recv(1)
    \/ Final(1)

PipeSpec == Init /\ [][PipeNext]_vars

-----------------------------------------------------------------------------
(* One request and the socket's out channel: the processor's sends wait for
   room in the channel, the writer task empties it, the client may leave *)

\* the room of the out channel: mpsc::channel::<String>(128) in the source,
\* taken small here so that the processor does find the channel full
OutCapacity == 2

\* every reply_tx.send(..).await of the processor has returned
Flushed == out.n = Len(sent[1])

\* item.reply_tx.send(line).await returns: the line is in the channel
Enter ==
    /\ out.n < Len(sent[1])
    /\ Len(out.q) < OutCapacity
    /\ out' = [out EXCEPT !.q = Append(@, sent[1][out.n + 1]), !.n = @ + 1]
    /\ UNCHANGED <<now, windows, endpoints, proc, sent, calls, order, lanes, sel,
                   dispatched, saturated, wsOut, held, cons, frag, reasm, cksum>>

\* a writer task that ends at the first failed send
Writer_StopsOnClose ==
    /\ out.q # <<>>
    /\ ~out.closed
    /\ out' = [out EXCEPT !.q = Tail(@), !.got = @ + 1]
    /\ UNCHANGED <<now, windows, endpoints, proc, sent, calls, order, lanes, sel,
                   dispatched, saturated, wsOut, held, cons, frag, reasm, cksum>>

\* lines 350-352: the writer task takes a line from the channel and sends it
\* on the socket; the result of the send is dropped, so a line for a client
\* that has left is discarded and the task goes on
Writer ==
    /\ out.q # <<>>
    /\ out' = [out EXCEPT !.q = Tail(@), !.got = IF out.closed THEN @ ELSE @ + 1]
    /\ UNCHANGED <<now, windows, endpoints, proc, sent, calls, order, lanes, sel,
                   dispatched, saturated, wsOut, held, cons, frag, reasm, cksum>>

\* line 379: the client closes its socket (or the connection breaks);
\* handle_socket returns, the processors keep their clones of out_tx
ClientClose ==
    /\ ~out.closed
    /\ out' = [out EXCEPT !.closed = TRUE]
    /\ UNCHANGED <<now, windows, endpoints, proc, sent, calls, order, lanes, sel,
                   dispatched, saturated, wsOut, held, cons, frag, reasm, cksum>>

\* a step of the processor task, which is past every send it has made
ProcStep ==
    /\ Flushed
    /\ \/ Admit(1)
       \/ MarkBackpressure(1)
       \/ Pressure(1)
       \/ Release(1)
       \/ Recv(1)
       \/ Final(1)

\* the processor task runs on: its pending send returns, or it takes a step
ProcTask == Enter \/ ProcStep

\* some adapter's stream ends
SomeAdapterEnds == \E i \in 1..Len(endpoints) : AdapterEnd(1, i)

\* the request: its window admits it or not
LiveFrames == {MkFrame(<<"s1", "a">>, "gold", w, 2) : w \in WindowChoices}
LiveEstimates == {Some(<<1, 2>>)}

LiveNext ==
    \/ \E f \in LiveFrames, allow \in BOOLEAN, est \in [1..Len(endpoints) -> LiveEstimates] :
          proc[1].pc = "idle" /\ Start(1, f, allow, est)
    \/ ProcStep
    \/ \E i \in 1..Len(endpoints) : AdapterConnectErr(1, i)
    \/ \E i \in 1..Len(endpoints) : AdapterRpcErr(1, i)
    \/ \E i \in 1..Len(endpoints), ty \in ChunkTypes : AdapterChunk(1, i, ty, TextA, PipeChunks)
    \/ SomeAdapterEnds
    \/ Enter
    \/ Writer
    \/ ClientClose

\* The tokio runtime runs every task that can run: the processor, its pending
\* send and the writer task; and every adapter stream ends.
LiveSpec ==
    /\ Init
    /\ [][LiveNext]_vars
    /\ WF_vars(ProcTask)
    /\ WF_vars(Writer)
    /\ WF_vars(SomeAdapterEnds)

-----------------------------------------------------------------------------
(* The window table under the calls of its users *)

\* reservations held at one time
MaxHeld == 3

\* the sums estimate_costs can return
NeedChoices == {<<0, 0>>, <<1, 2>>, <<2, 1>>}

WindowUnchanged ==
    UNCHANGED <<now, endpoints, proc, sent, calls, order, lanes, sel, dispatched,
                saturated, wsOut, cons, frag, reasm, cksum, out>>

\* admit without the write lock held across the test and the update: the
\* test reads the entry as the previous admit on the key read it (two callers
\* that both read before either wrote), the update adds to the entry as it is
WAdmit_CheckThenAct(key, w, tokens, usd) ==
    LET seen == IF held.last.op = "admit" /\ held.last.r.key = key
                THEN held.last.pre ELSE Entry(windows, key)
        m == OrDefault(windows, key)
        ok == /\ seen.inflight < w.max_parallel
              /\ seen.tokens + tokens <= w.max_tokens
              /\ seen.usd + usd <= w.max_usd_micros
        r == Reservation(key, tokens, usd)
    IN  /\ ok => BagCardinality(held.res) < MaxHeld
        /\ windows' = IF ok THEN [m EXCEPT ![key] = [@ EXCEPT !.inflight = @ + 1,
                                                               !.tokens = @ + tokens,
                                                               !.usd = @ + usd]]
                            ELSE m
        /\ held' = [res |-> IF ok THEN held.res (+) SetToBag({r}) ELSE held.res,
                    marks |-> IF ok THEN held.marks ELSE held.marks \cup {key},
                    last |-> [op |-> "admit", r |-> r, w |-> w, ok |-> ok,
                              fresh |-> FALSE, pre |-> Entry(windows, key)]]
        /\ WindowUnchanged

\* line 155: a processor calls admit; it then owes the ack of what admit
\* reserved (line 318), or the mark of the key when admit refused (line 157)
WAdmit(key, w, tokens, usd) ==
    LET res == admit(windows, key, w, tokens, usd)
        r == Reservation(key, tokens, usd)
    IN  /\ res.ok => BagCardinality(held.res) < MaxHeld
        /\ windows' = res.map
        /\ held' = [res |-> IF res.ok THEN held.res (+) SetToBag({r}) ELSE held.res,
                    marks |-> IF res.ok THEN held.marks ELSE held.marks \cup {key},
                    last |-> [op |-> "admit", r |-> r, w |-> w, ok |-> res.ok,
                              fresh |-> FALSE, pre |-> Entry(windows, key)]]
        /\ WindowUnchanged

\* lines 165 and 318: a processor releases what it reserved.  fresh tells
\* that this ack follows the admit of its reservation with no call between.
WAck(r) ==
    /\ BagIn(r, held.res)
    /\ windows' = ack(windows, r.key, r.tokens, r.usd)
    /\ held' = [res |-> held.res (-) SetToBag({r}),
                marks |-> held.marks,
                last |-> [NoCall EXCEPT !.op = "ack",
                                        !.r = r,
                                        !.ok = TRUE,
                                        !.fresh = /\ held.last.op = "admit"
                                                  /\ held.last.ok
                                                  /\ held.last.r = r,
                                        !.pre = held.last.pre]]
    /\ WindowUnchanged

\* a refused processor that also releases a slot on its way out (an ack on
\* the BUSY path)
WMark_Acks(key) ==
    /\ key \in held.marks
    /\ windows' = ack(mark_backpressure(windows, key, now), key, 0, 0)
    /\ held' = [res |-> held.res,
                marks |-> held.marks \ {key},
                last |-> [NoCall EXCEPT !.op = "mark", !.r = Reservation(key, 0, 0)]]
    /\ WindowUnchanged

\* line 157: a refused processor marks its key
WMark(key) ==
    /\ key \in held.marks
    /\ windows' = mark_backpressure(windows, key, now)
    /\ held' = [res |-> held.res,
                marks |-> held.marks \ {key},
                last |-> [NoCall EXCEPT !.op = "mark", !.r = Reservation(key, 0, 0)]]
    /\ WindowUnchanged

WindowNext ==
    \/ \E key \in Keys, w \in WindowChoices, n \in NeedChoices :
          WAdmit(key, w, n[1], n[2])
    \/ \E r \in BagToSet(held.res) : WAck(r)
    \/ \E key \in Keys : WMark(key)
    \/ Tick(1000)

WindowSpec == Init /\ [][WindowNext]_vars

\* the table under concurrent callers whose frames carry, for each key, one
\* and the same window (frame.window of line 155): a narrow one for s1:a, a
\* wider one for s1:b
KeyWindow(key) == IF key = "s1:a" THEN Window(1, 1, 1) ELSE Window(2, 2, 3)

SharedWindowNext ==
    \/ \E key \in Keys, n \in NeedChoices : WAdmit(key, KeyWindow(key), n[1], n[2])
    \/ \E r \in BagToSet(held.res) : WAck(r)
    \/ \E key \in Keys : WMark(key)
    \/ Tick(1000)

SharedWindowSpec == Init /\ [][SharedWindowNext]_vars

-----------------------------------------------------------------------------
(* consensus::compute on the lists of finals a request can collect *)

\* the library functions touch nothing of the router
RouterUnchanged ==
    UNCHANGED <<now, windows, endpoints, proc, sent, calls, order, lanes, sel, dispatched,
                saturated, wsOut, held, out>>

\* the longest list of finals
MaxFinals == 4

\* "!": a text without a token
TextBang == <<33>>
ConsTexts == Texts \cup {TextBang}

RECURSIVE SeqsUpTo(_, _)
\* the sequences over S of length at most n
SeqsUpTo(S, n) ==
    IF n = 0 THEN {<<>>}
    ELSE LET shorter == SeqsUpTo(S, n - 1)
         IN  shorter \cup {Append(q, x) : q \in {r \in shorter : Len(r) = n - 1}, x \in S}

FinalsLists == SeqsUpTo({json_to_string(t) : t \in ConsTexts}, MaxFinals)

ConsensusInit ==
    /\ ProcInit
    /\ endpoints = DefaultEndpoints
    /\ SchedInit
    /\ cons \in {[finals |-> L, result |-> None] : L \in FinalsLists}
    /\ frag = NoFragments
    /\ reasm = NoPushes
    /\ cksum = NoChecksum
    /\ out = OutInit

\* main.rs lines 274 and 299: let cs = consensus::compute(&finals)
Compute ==
    /\ cons.result = None
    /\ cons' = [cons EXCEPT !.result = Some(compute(cons.finals))]
    /\ UNCHANGED <<frag, reasm, cksum>>
    /\ RouterUnchanged

ConsensusNext == Compute

ConsensusSpec == ConsensusInit /\ [][ConsensusNext]_vars

-----------------------------------------------------------------------------
(* The two calls of consensus::compute of one request: on the finals collected
   when the provisional is considered, and on all of them at the end *)

\* k is the number of finals collected at the earlier call
PrefixInit ==
    /\ ProcInit
    /\ endpoints = DefaultEndpoints
    /\ SchedInit
    /\ cons \in {[finals |-> L, result |-> None, k |-> k, early |-> None] :
                    L \in FinalsLists, k \in 0..MaxFinals}
    /\ cons.k <= Len(cons.finals)
    /\ frag = NoFragments
    /\ reasm = NoPushes
    /\ cksum = NoChecksum
    /\ out = OutInit

\* main.rs line 274: let pcs = consensus::compute(&finals), finals holding
\* the first k finals
ComputeEarly ==
    /\ cons.early = None
    /\ cons.result = None
    /\ cons' = [cons EXCEPT !.early = Some(compute(SubSeq(cons.finals, 1, cons.k)))]
    /\ UNCHANGED <<frag, reasm, cksum>>
    /\ RouterUnchanged

PrefixNext == ComputeEarly \/ Compute

PrefixSpec == PrefixInit /\ [][PrefixNext]_vars

-----------------------------------------------------------------------------
(* Fragmenting a text and reading it back *)

\* characters per text and bytes per fragment
MaxTextChars == 3
MaxFragmentBytes == 3

\* the characters of the texts: "a", "b" and the two-byte e-acute
Chars == {<<97>>, <<98>>, <<195, 169>>}

RECURSIVE as_bytes(_)
\* str::as_bytes of a string given as its characters
as_bytes(chars) == IF chars = <<>> THEN <<>> ELSE Head(chars) \o as_bytes(Tail(chars))

FragTexts == {as_bytes(cs) : cs \in SeqsUpTo(Chars, MaxTextChars)}

\* base frames: any fragment number and flags, with or without a text
FragBases ==
    {SchemaFrame(n, fl, c, None, None) :
        n \in {0, 1}, fl \in {<<>>, <<"MORE">>}, c \in {None, Some(<<97>>)}}

FragInit ==
    /\ ProcInit
    /\ endpoints = DefaultEndpoints
    /\ SchedInit
    /\ cons = NoConsensus
    /\ frag \in {[base |-> b, text |-> t, max |-> m, frames |-> None, text_out |-> None] :
                    b \in FragBases, t \in FragTexts, m \in 1..MaxFragmentBytes}
    /\ reasm = NoPushes
    /\ cksum = NoChecksum
    /\ out = OutInit

\* let frags = fragment_text_frame(base, &text, max)
Fragment ==
    /\ frag.frames = None
    /\ frag' = [frag EXCEPT !.frames = Some(fragment_text_frame(frag.base, frag.text, frag.max))]
    /\ UNCHANGED <<cons, reasm, cksum>>
    /\ RouterUnchanged

\* reassemble_text(&frags)
Reassemble ==
    /\ frag.frames # None
    /\ frag.text_out = None
    /\ frag' = [frag EXCEPT !.text_out = Some(reassemble_text(frag.frames[1]))]
    /\ UNCHANGED <<cons, reasm, cksum>>
    /\ RouterUnchanged

FragNext == Fragment \/ Reassemble

FragSpec == FragInit /\ [][FragNext]_vars

-----------------------------------------------------------------------------
(* reassemble_text on any slice of frames, as a receiver may hold them *)

\* the longest slice
MaxFrames == 3

\* frames as received: any fragment number below MaxFrames, with or without
\* MORE, with the text "a", the text "b" or a content without a text
ReadFrames ==
    {SchemaFrame(n, fl, c, None, None) :
        n \in 0..(MaxFrames - 1), fl \in {<<>>, <<"MORE">>},
        c \in {None, Some(<<97>>), Some(<<98>>)}}

ReadInit ==
    /\ ProcInit
    /\ endpoints = DefaultEndpoints
    /\ SchedInit
    /\ cons = NoConsensus
    /\ frag \in {[base |-> SampleFrame, text |-> <<>>, max |-> 1, frames |-> Some(fs),
                   text_out |-> None] : fs \in SeqsUpTo(ReadFrames, MaxFrames)}
    /\ reasm = NoPushes
    /\ cksum = NoChecksum
    /\ out = OutInit

ReadNext == Reassemble

ReadSpec == ReadInit /\ [][ReadNext]_vars

-----------------------------------------------------------------------------
(* A Reassembler under pushes *)

\* pushes on one Reassembler
MaxPush == 4

Range(q) == {q[i] : i \in 1..Len(q)}

\* the texts "ab" and "aba", fragmented one byte per fragment, and "a" in
\* one fragment
PushTexts == {<<97, 98>>, <<97, 98, 97>>, <<97>>}
FragmentSets == {fragment_text_frame(SampleFrame, t, 1) : t \in PushTexts}
PushFrames == UNION {Range(fs) : fs \in FragmentSets}

ReasmInit ==
    /\ ProcInit
    /\ endpoints = DefaultEndpoints
    /\ SchedInit
    /\ cons = NoConsensus
    /\ frag = NoFragments
    /\ reasm = NoPushes
    /\ cksum = NoChecksum
    /\ out = OutInit

\* r.push(f); the log keeps the frame and the value returned
Push(f) ==
    /\ Len(reasm.log) < MaxPush
    /\ LET res == push(reasm.r, f)
       IN  reasm' = [r |-> res.self, log |-> Append(reasm.log, [frame |-> f, ret |-> res.ret])]
    /\ UNCHANGED <<cons, frag, cksum>>
    /\ RouterUnchanged

ReasmNext == \E f \in PushFrames : Push(f)

ReasmSpec == ReasmInit /\ [][ReasmNext]_vars

-----------------------------------------------------------------------------
(* The checksum of a frame *)

ChecksumContents == {None, Some(<<97>>), Some(<<97, 98>>)}
ChecksumSigs == {None, Some("sig")}
\* frames that carry no checksum
BareFrames ==
    {SchemaFrame(n, fl, c, sg, None) :
        n \in {0, 1}, fl \in {<<>>, <<"MORE">>}, c \in ChecksumContents, sg \in ChecksumSigs}
\* the checksums a received frame may carry: none, or the digest of any frame
Checksums == {None} \cup {Some(compute_checksum(g)) : g \in BareFrames}

ChecksumInit ==
    /\ ProcInit
    /\ endpoints = DefaultEndpoints
    /\ SchedInit
    /\ cons = NoConsensus
    /\ frag = NoFragments
    /\ reasm = NoPushes
    /\ cksum \in {Received([g EXCEPT !.checksum = c]) : g \in BareFrames, c \in Checksums}
    /\ out = OutInit

\* frame.with_computed_checksum()
WithComputedChecksum ==
    /\ cksum' = [frame |-> with_computed_checksum(cksum.frame),
                 last |-> "with_computed_checksum"]
    /\ UNCHANGED <<cons, frag, reasm>>
    /\ RouterUnchanged

\* line 108: frame.payload.content = ...
MutateContent(c) ==
    /\ c # cksum.frame.content
    /\ cksum' = [frame |-> [cksum.frame EXCEPT !.content = c], last |-> "mutate"]
    /\ UNCHANGED <<cons, frag, reasm>>
    /\ RouterUnchanged

ChecksumNext ==
    \/ WithComputedChecksum
    \/ \E c \in ChecksumContents : MutateContent(c)

ChecksumSpec == ChecksumInit /\ [][ChecksumNext]_vars

-----------------------------------------------------------------------------
(* Properties of process_request, one request at a time (Spec) *)

Last(s) == s[Len(s)]
CountKind(s, k) == Cardinality({i \in 1..Len(s) : s[i].kind = k})
CallsOf(p, op) == {i \in 1..Len(calls[p]) : calls[p][i].op = op}
Counters(e) == <<e.inflight, e.tokens, e.usd>>
\* the run of slot p has made one more WindowTable call in this step
NewCall(p) == Len(calls'[p]) = Len(calls[p]) + 1

\* C1: a run calls admit at most once and ack at most once; an ack follows a
\* successful admit of the same run and carries its key, need_tokens and
\* need_usd, and comes right after the ECN or the FIN reply; a run that has
\* returned after a successful admit has called ack exactly once; a run with
\* no successful admit (policy denial, failed admit) has called no ack and
\* holds nothing in any entry of the table.
AdmitAckPaired ==
    \A p \in ProcIds :
        LET cs == calls[p]
            admits == CallsOf(p, "admit")
            acks == CallsOf(p, "ack")
        IN  /\ Cardinality(admits) <= 1
            /\ Cardinality(acks) <= 1
            /\ \A j \in acks :
                  /\ \E i \in admits :
                        /\ i < j
                        /\ cs[i].ok
                        /\ cs[i].key = cs[j].key
                        /\ cs[i].tokens = cs[j].tokens
                        /\ cs[i].usd = cs[j].usd
                  /\ sent[p] # <<>>
                  /\ Last(sent[p]).kind \in {"ECN", "FIN"}
            /\ (proc[p].pc = "done" /\ \E i \in admits : cs[i].ok)
                  => Cardinality(acks) = 1
            /\ (\A i \in admits : ~cs[i].ok)
                  => /\ acks = {}
                     /\ \A k \in DOMAIN windows : Counters(windows[k]) = <<0, 0, 0>>

\* a run has returned after FIN and the release of a reservation of 2 tokens
AdmitAckPairedWitness ==
    /\ proc[1].pc = "done"
    /\ sent[1] # <<>>
    /\ Last(sent[1]).kind = "FIN"
    /\ \E j \in CallsOf(1, "ack") : calls[1][j].tokens = 2

\* the replies of a run that ended at denial, rejection or shedding
TerminalReplies ==
    \A p \in ProcIds :
        /\ \A k \in {"policy_denied", "BUSY", "ECN"} :
              CountKind(sent[p], k) > 0 => Len(sent[p]) = 1
        /\ (proc[p].pc = "done" /\ calls[p] = <<>>) => CountKind(sent[p], "policy_denied") = 1
        /\ (\E i \in CallsOf(p, "admit") : ~calls[p][i].ok) => CountKind(sent[p], "BUSY") = 1
        /\ proc[p].pc = "shed" => CountKind(sent[p], "ECN") = 1

\* the step in which a run is denied by the policy and returns
DenialStep(p) ==
    /\ proc[p].pc \in {"idle", "done"}
    /\ proc'[p].pc = "done"
    /\ CountKind(sent'[p], "policy_denied") = 1

\* C6: a run that ends at policy denial, at a failed admit or at bronze
\* pressure shedding has sent exactly one reply (policy_denied, BUSY, ECN) and
\* nothing else; the step of a policy denial leaves the window table as it was.
SingleTerminalReply ==
    [][/\ TerminalReplies'
       /\ \A p \in ProcIds : DenialStep(p) => windows' = windows]_vars

\* a bronze request has been shed on a key that has an entry in the table
SingleTerminalReplyWitness ==
    /\ proc[1].pc = "done"
    /\ sent[1] = <<Reply("ECN", <<>>)>>
    /\ windows # <<>>

\* C8: a run past the pressure test has sent the ECN and no ACK exactly when
\* under_pressure returned true for its key and its qos is of class Bronze,
\* the class being that of lane_from_qos (anything but gold and silver, in
\* any letter case, is Bronze).
EcnIffPressureAndBronzeClass ==
    \A p \in ProcIds :
        proc[p].pc \in {"shed", "loop", "release"}
            => LET c == calls[p][CHOOSE i \in CallsOf(p, "under_pressure") : TRUE]
               IN  (sent[p] = <<Reply("ECN", <<>>)>>)
                      <=> (c.ok /\ lane_from_qos(proc[p].frame.qos) = "Bronze")

MarkOf(map, k) == Entry(map, k).last_backpressure
\* the most recent mark of key k is less than 2 seconds old at time t
MarkIsFresh(map, k, t) == MarkOf(map, k) # None /\ t - MarkOf(map, k)[1] < 2 * 1000

\* C9: the step that follows a BUSY stamps the key with the current time and
\* leaves every other key's entry alone, and no other step changes a mark;
\* under_pressure(key) is true exactly while the key's latest mark is less
\* than 2 s old; at the pressure test of a run whose admit succeeded, a bronze
\* request (in any letter case) is ECN-dropped exactly when its own key's
\* mark is that fresh, and a gold or silver request gets its ACK.
BackpressureWindow ==
    [][/\ \A k \in Keys : under_pressure(windows', k, now') <=> MarkIsFresh(windows', k, now')
       /\ \A p \in ProcIds :
             LET c == Last(calls'[p])
                 marking == NewCall(p) /\ c.op = "mark_backpressure"
                 testing == NewCall(p) /\ c.op = "under_pressure"
                 class == to_lowercase(proc[p].frame.qos)
             IN  /\ marking => /\ sent[p] = <<Reply("BUSY", <<>>)>>
                               /\ MarkOf(windows', c.key) = Some(now)
                               /\ \A k \in Keys \ {c.key} :
                                     Entry(windows', k) = Entry(windows, k)
                 /\ ~marking => \A k \in Keys : MarkOf(windows', k) = MarkOf(windows, k)
                 /\ testing => /\ c.ok <=> MarkIsFresh(windows, c.key, now)
                               /\ class = "bronze" =>
                                     IF c.ok THEN sent'[p] = <<Reply("ECN", <<>>)>>
                                     ELSE sent'[p] = <<AckFrame(proc[p].frame)>>
                               /\ class \in {"gold", "silver"} =>
                                     sent'[p] = <<AckFrame(proc[p].frame)>>
                 /\ (proc'[p].pc = "done" /\ sent'[p] = <<Reply("BUSY", <<>>)>>)
                       => MarkOf(windows', c.key) # None]_vars

\* a bronze request is shed one second after the mark of its key, while the
\* other key has no mark
BackpressureWindowWitness ==
    /\ proc[1].pc = "shed"
    /\ MarkOf(windows, proc[1].key) = Some(now - 1000)
    /\ \E k \in Keys : MarkOf(windows, k) = None

-----------------------------------------------------------------------------
(* Properties of the reply stream of an admitted request (FanSpec) *)

Admitted(p) == sent[p] # <<>> /\ sent[p][1].kind = "ACK"
\* a reply that forwards what an adapter task sent: a chunk or an error sentinel
IsPartial(m) == m.kind \in {"partial", "adapter_error"}
IsFinalPartial(m) == m.kind = "partial" /\ ends_with_final(m.body.type)
Positions(s, k) == {i \in 1..Len(s) : s[i].kind = k}
\* the place of a reply in the order ACK, partials, provisional, DOWNGRADED, FIN
Rank(m) ==
    CASE m.kind = "ACK" -> 0
      [] IsPartial(m) -> 1
      [] m.kind = "provisional" -> 2
      [] m.kind = "DOWNGRADED" -> 3
      [] OTHER -> 4

\* C4, as stated: the replies of an admitted request are the ACK, then the
\* partials, then at most one provisional, then at most one DOWNGRADED, then
\* the FIN: no partial comes after the provisional.
RepliesInStatedOrder ==
    \A p \in ProcIds :
        Admitted(p) =>
            LET s == sent[p]
            IN  /\ \A k \in {"ACK", "provisional", "DOWNGRADED", "FIN"} : CountKind(s, k) <= 1
                /\ \A i, j \in 1..Len(s) : i < j => Rank(s[i]) <= Rank(s[j])

\* C4, amended: the ACK is the first reply and the FIN, once sent, the last;
\* a DOWNGRADED comes only right before the FIN and only after a provisional;
\* there is at most one ACK, provisional, DOWNGRADED and FIN; everything
\* between the ACK and the DOWNGRADED or FIN is a partial or the provisional,
\* and the provisional comes right after a final-typed partial that is at
\* least the second one, so partials may follow it; the partials of one
\* adapter appear in the order the adapter sent them.
RepliesInOrder ==
    \A p \in ProcIds :
        Admitted(p) =>
            LET s == sent[p]
                n == Len(s)
            IN  /\ \A k \in {"ACK", "provisional", "DOWNGRADED", "FIN"} : CountKind(s, k) <= 1
                /\ \A i \in Positions(s, "FIN") : i = n
                /\ \A i \in Positions(s, "DOWNGRADED") :
                      /\ i = n - 1
                      /\ s[n].kind = "FIN"
                      /\ \E j \in Positions(s, "provisional") : j < i
                /\ \A i \in 2..n : IsPartial(s[i]) \/ s[i].kind \in {"provisional", "DOWNGRADED", "FIN"}
                /\ \A i \in Positions(s, "provisional") :
                      /\ IsFinalPartial(s[i - 1])
                      /\ Cardinality({j \in 1..(i - 1) : IsFinalPartial(s[j])}) >= 2
                /\ \A i, j \in 1..n :
                      (i < j /\ IsPartial(s[i]) /\ IsPartial(s[j])
                         /\ s[i].body.adapter = s[j].body.adapter)
                      => s[i].body.seq < s[j].body.seq

\* a finished stream in which a partial follows the provisional and the
\* provisional was downgraded
RepliesInOrderWitness ==
    LET s == sent[1]
    IN  /\ Admitted(1)
        /\ CountKind(s, "FIN") = 1
        /\ CountKind(s, "DOWNGRADED") = 1
        /\ \E i \in Positions(s, "provisional") : \E j \in (i + 1)..Len(s) : IsPartial(s[j])

\* C5: an admitted, non-shed run sends at most one FIN, and exactly one by
\* the time it has returned; when the FIN is sent every adapter task has
\* ended and the aggregation channel is empty; nothing follows the FIN; the
\* run calls ack only once the FIN is sent.
FinClosesStream ==
    \A p \in ProcIds :
        Admitted(p) =>
            LET s == sent[p]
            IN  /\ CountKind(s, "FIN") <= 1
                /\ \A i \in Positions(s, "FIN") : i = Len(s)
                /\ CountKind(s, "FIN") = 1 <=> proc[p].pc \in {"release", "done"}
                /\ proc[p].pc = "release" =>
                      /\ proc[p].rx = <<>>
                      /\ \A i \in 1..Len(proc[p].tasks) : proc[p].tasks[i] = "ended"
                /\ CallsOf(p, "ack") # {} => CountKind(s, "FIN") = 1

\* a run has returned after forwarding partials, sending the FIN and
\* releasing its reservation
FinClosesStreamWitness ==
    /\ Admitted(1)
    /\ proc[1].pc = "done"
    /\ Last(sent[1]).kind = "FIN"
    /\ CountKind(sent[1], "partial") >= 2
    /\ CallsOf(1, "ack") # {}

\* the largest group of the consensus over fin is at least 0.66 of the finals
TopAtLeast066(fin) ==
    \E g \in 1..Len(compute(fin).groups) : 100 * Len(compute(fin).groups[g]) >= 66 * Len(fin)

\* C10: a request's stream holds at most one provisional; a step that appends
\* to finals emits the provisional exactly when none was emitted before, at
\* least 2 finals are then present, and the top score is >= 0.66 or more than
\* 700 ms have passed since the loop began; no other step emits one.
ProvisionalOnce ==
    [][\A p \in ProcIds :
          LET fin == proc'[p].finals
              appended == proc[p].pc = "loop" /\ proc'[p].pc = "loop"
                            /\ Len(fin) = Len(proc[p].finals) + 1
              emitted == CountKind(sent'[p], "provisional") = CountKind(sent[p], "provisional") + 1
              due == /\ CountKind(sent[p], "provisional") = 0
                     /\ Len(fin) >= 2
                     /\ (TopAtLeast066(fin) \/ now - proc[p].start_t > 700)
          IN  /\ CountKind(sent'[p], "provisional") <= 1
              /\ appended => (emitted <=> due)
              /\ ~appended => ~emitted
              /\ emitted => Last(sent'[p]).kind = "provisional"]_vars

\* the provisional was emitted at the third final, the first two having
\* fallen in different groups within 700 ms
ProvisionalOnceWitness ==
    \E i \in Positions(sent[1], "provisional") :
        /\ Len(sent[1][i].body.finals) = 3
        /\ Len(sent[1][i].body.groups) = 2

\* the largest of |group| / |finals| over the groups of a provisional or FIN
\* body, as the pair <<|group|, |finals|>>
TopOf(body) ==
    LET sizes == {Len(body.groups[g]) : g \in 1..Len(body.groups)}
    IN  <<CHOOSE m \in sizes : \A k \in sizes : k <= m, Len(body.finals)>>
RatEq(a, b) == a[1] * b[2] = b[1] * a[2]

\* C11: by the time the FIN is sent, a DOWNGRADED was sent exactly when a
\* provisional was sent and the top score of the FIN's consensus plus 0.05 is
\* below the top score of the provisional's consensus; the DOWNGRADED comes
\* after every partial and right before the FIN, and reports the provisional's
\* top score as from and the final top score as to.
DowngradeIffConfidenceDropped ==
    \A p \in ProcIds :
        (Admitted(p) /\ CountKind(sent[p], "FIN") = 1) =>
            LET s == sent[p]
                n == Len(s)
                fin == s[CHOOSE i \in Positions(s, "FIN") : TRUE].body
                provs == Positions(s, "provisional")
                downs == Positions(s, "DOWNGRADED")
                dropped == \E i \in provs :
                              LET top == TopOf(fin)
                                  conf == TopOf(s[i].body)
                              IN  \* top + 1/20 < conf
                                  20 * top[1] * conf[2] + top[2] * conf[2]
                                     < 20 * conf[1] * top[2]
            IN  /\ downs # {} <=> dropped
                /\ Cardinality(downs) <= 1
                /\ \A d \in downs :
                      /\ d = n - 1
                      /\ s[n].kind = "FIN"
                      /\ \A i \in 1..n : IsPartial(s[i]) => i < d
                      /\ \E i \in provs : RatEq(s[d].body.from, TopOf(s[i].body))
                      /\ RatEq(s[d].body.to, TopOf(fin))

\* a provisional of top score 1 was followed by a FIN of top score 2/3 with
\* the DOWNGRADED in between
DowngradeIffConfidenceDroppedWitness ==
    LET s == sent[1]
    IN  /\ Admitted(1)
        /\ CountKind(s, "FIN") = 1
        /\ \E d \in Positions(s, "DOWNGRADED") :
              /\ RatEq(s[d].body.from, <<1, 1>>)
              /\ RatEq(s[d].body.to, <<2, 3>>)


-----------------------------------------------------------------------------
(* Adapter failures (FanSpec) *)

\* the contents of the final-typed partials of a reply stream, as compute gets them
RECURSIVE FinalsForwarded(_, _)
FinalsForwarded(s, i) ==
    IF i > Len(s) THEN <<>>
    ELSE (IF IsFinalPartial(s[i]) THEN <<json_to_string(s[i].body.content)>> ELSE <<>>)
            \o FinalsForwarded(s, i + 1)

\* what a finished reply stream holds, whatever adapters failed
FailuresAccounted(p) ==
    LET s == sent[p]
        fin == s[CHOOSE i \in Positions(s, "FIN") : TRUE].body
    IN  (Admitted(p) /\ CountKind(s, "FIN") = 1) =>
            /\ fin.finals = FinalsForwarded(s, 1)
            /\ Len(fin.groups) = Len(fin.scores)
            /\ fin.finals # <<>> => fin.groups # <<>>
            /\ CountKind(s, "adapter_error") = Len(endpoints) =>
                  /\ fin.finals = <<>> /\ fin.groups = <<>> /\ fin.scores = <<>>
                  /\ fin.representatives = <<>>
                  /\ CountKind(s, "provisional") = 0
                  /\ CountKind(s, "DOWNGRADED") = 0
                  /\ CountKind(s, "partial") = 0
            /\ proc[p].pc = "done" =>
                  /\ Last(s).kind = "FIN"
                  /\ Last(calls[p]).op = "ack"
                  /\ Entry(windows, Last(calls[p]).key).inflight = 0

\* C18: the step that receives an adapter's error sentinel forwards it as an
\* adapter_error message and changes nothing else: the loop goes on, the
\* other adapters' tasks and queued messages stay; the step that receives a
\* chunk forwards it and counts it if final; the FIN carries the consensus of
\* all finals forwarded, and the run then releases its reservation; when
\* every adapter failed the FIN's finals, groups and scores are empty and
\* neither a provisional nor a DOWNGRADED was sent.
AdapterFailureNonFatal ==
    [][\A p \in ProcIds :
          LET q == proc[p]
              receiving == /\ q.pc = "loop" /\ q.rx # <<>>
                           /\ Len(proc'[p].rx) < Len(q.rx)
              msgv == Head(q.rx)
          IN  /\ (receiving /\ msgv.kind = "error") =>
                    /\ sent'[p] = Append(sent[p], Reply("adapter_error", msgv))
                    /\ proc'[p] = [q EXCEPT !.rx = Tail(q.rx)]
              /\ (receiving /\ msgv.kind = "chunk") =>
                    /\ Len(sent'[p]) > Len(sent[p])
                    /\ sent'[p][Len(sent[p]) + 1] = Reply("partial", msgv)
                    /\ proc'[p].rx = Tail(q.rx)
                    /\ proc'[p].tasks = q.tasks
                    /\ proc'[p].finals =
                          IF ends_with_final(msgv.type)
                          THEN Append(q.finals, json_to_string(msgv.content)) ELSE q.finals
              /\ FailuresAccounted(p)']_vars

\* one adapter failed and the other's two finals went into the FIN's
\* consensus; the run has released its reservation
AdapterFailureNonFatalWitness ==
    /\ proc[1].pc = "done"
    /\ CountKind(sent[1], "adapter_error") = 1
    /\ Last(sent[1]).kind = "FIN"
    /\ Len(Last(sent[1]).body.finals) = 2
    /\ Last(calls[1]).op = "ack"

-----------------------------------------------------------------------------
(* Properties of consensus::compute (ConsensusSpec) *)

RECURSIVE SumLen(_, _)
SumLen(groups, g) == IF g > Len(groups) THEN 0 ELSE Len(groups[g]) + SumLen(groups, g + 1)

\* C12: for every list L of finals, the groups of compute(L) partition the
\* indices 0..|L|-1 (every index in exactly one group, once) and none is
\* empty; there is one score and one representative per group; each score is
\* |group| / |L|; the group sizes sum to |L|; and for the empty list groups,
\* representatives and scores are empty.
GroupsPartitionFinals ==
    cons.result # None =>
        LET r == cons.result[1]
            L == cons.finals
            G == 1..Len(r.groups)
        IN  /\ r.finals = L
            /\ \A i \in 0..(Len(L) - 1) :
                  Cardinality({<<g, k>> \in {<<g, k>> \in G \X (1..Len(L)) : k <= Len(r.groups[g])} :
                                   r.groups[g][k] = i}) = 1
            /\ \A g \in G : /\ r.groups[g] # <<>>
                            /\ \A k \in 1..Len(r.groups[g]) : r.groups[g][k] \in 0..(Len(L) - 1)
            /\ Len(r.scores) = Len(r.groups)
            /\ Len(r.representatives) = Len(r.groups)
            /\ \A g \in G : r.scores[g][1] * Len(L) = Len(r.groups[g]) * r.scores[g][2]
            /\ SumLen(r.groups, 1) = Len(L)
            /\ L = <<>> => (r.groups = <<>> /\ r.representatives = <<>> /\ r.scores = <<>>)

\* four finals fell in groups of three and one, the third final resembling
\* the representatives of both
GroupsPartitionFinalsWitness ==
    /\ cons.result # None
    /\ cons.finals = <<json_to_string(TextA), json_to_string(TextAb),
                       json_to_string(TextAAB), json_to_string(TextA)>>
    /\ cons.result[1].groups = <<<<0, 2, 3>>, <<1>>>>

\* cosine(vecs[i], vecs[j]) >= 0.85 for finals i and j of the list L
Similar(L, i, j) == cosine_ge(embed(L[i + 1]), embed(L[j + 1]))

\* the shape of a greedy first-match clustering of L: representative g is the
\* first and smallest index of group g, representatives increase with g,
\* every member resembles its representative and no representative of an
\* earlier group, and no representative resembles an earlier one.  With
\* self_too the representative counts among the members that resemble it.
GreedyShape(L, r, self_too) ==
    LET G == 1..Len(r.groups)
        rep(g) == r.representatives[g][1]
    IN  /\ Len(r.representatives) = Len(r.groups)
        /\ \A g \in G :
              /\ r.groups[g] # <<>>
              /\ rep(g) = r.groups[g][1]
              /\ r.representatives[g][2] = L[rep(g) + 1]
              /\ \A k \in 2..Len(r.groups[g]) : r.groups[g][k - 1] < r.groups[g][k]
              /\ \A k \in 1..Len(r.groups[g]) :
                    LET i == r.groups[g][k]
                    IN  /\ (k > 1 \/ self_too) => Similar(L, i, rep(g))
                        /\ \A h \in 1..(g - 1) : ~Similar(L, i, rep(h))
        /\ \A g \in G : \A h \in 1..(g - 1) : rep(h) < rep(g) /\ ~Similar(L, rep(g), rep(h))

\* C21 as stated: compute clusters greedily in input order, so that each
\* group's representative is its smallest index, groups are listed by
\* increasing representative, every member (the representative included) is
\* similar (>= 0.85) to its group's representative and to no representative
\* of an earlier group, and every representative is dissimilar to all earlier
\* representatives.
GreedyFirstMatchStated ==
    cons.result # None => GreedyShape(cons.finals, cons.result[1], TRUE)

\* C21 (amended): as stated, for every member other than the representative
\* itself; a representative is similar to itself exactly when its final has
\* at least one token (the embedding of a final without a token is the zero
\* vector, whose cosine with anything is 0).
GreedyFirstMatch ==
    cons.result # None =>
        LET L == cons.finals
            r == cons.result[1]
        IN  /\ GreedyShape(L, r, FALSE)
            /\ \A g \in 1..Len(r.groups) :
                  LET i == r.representatives[g][1]
                  IN  Similar(L, i, i) <=> split_whitespace(normalize(L[i + 1])) # <<>>

\* "a" opened a group, "A,b" a second one, "a a b" resembles both and joined
\* the first, and "!" (no token) opened a third
GreedyFirstMatchWitness ==
    /\ cons.result # None
    /\ cons.finals = <<json_to_string(TextA), json_to_string(TextAb),
                       json_to_string(TextAAB), json_to_string(TextBang)>>
    /\ cons.result[1].groups = <<<<0, 2>>, <<1>>, <<3>>>>
    /\ Similar(cons.finals, 2, 1)

\* the groups of r with the indices k and above taken out, and the groups
\* left empty dropped
GroupsBelow(r, k) ==
    LET Below(i) == i < k
        NonEmpty(g) == g # <<>>
    IN  SelectSeq([g \in 1..Len(r.groups) |-> SelectSeq(r.groups[g], Below)], NonEmpty)

RepsBelow(r, k) ==
    LET Below(rep) == rep[1] < k
    IN  SelectSeq(r.representatives, Below)

\* C27: for every list L of finals and every k <= |L|, the groups and
\* representatives computed over the first k finals are those computed over
\* L restricted to the indices below k (same representatives, same order,
\* same members); so each group of the provisional is a prefix of the group
\* at the same place in the final consensus, with the same representative.
ProvisionalGroupsArePrefixes ==
    (cons.result # None /\ cons.early # None) =>
        LET e == cons.early[1]
            r == cons.result[1]
        IN  /\ e.groups = GroupsBelow(r, cons.k)
            /\ e.representatives = RepsBelow(r, cons.k)
            /\ Len(e.groups) <= Len(r.groups)
            /\ \A g \in 1..Len(e.groups) :
                  /\ Len(e.groups[g]) <= Len(r.groups[g])
                  /\ e.groups[g] = SubSeq(r.groups[g], 1, Len(e.groups[g]))
                  /\ e.representatives[g] = r.representatives[g]

\* the provisional saw "a" and "A,b" in two groups; in the final consensus
\* "a a b" and a second "a" joined the first group and "!" opened a third
ProvisionalGroupsArePrefixesWitness ==
    /\ cons.early # None
    /\ cons.result # None
    /\ cons.k = 2
    /\ cons.early[1].groups = <<<<0>>, <<1>>>>
    /\ cons.result[1].groups = <<<<0, 2>>, <<1>>, <<3>>>>

-----------------------------------------------------------------------------
(* Properties of the frame library (FragSpec, ReasmSpec, ChecksumSpec) *)

\* C13: for every base frame, text T and max_bytes M >= 1 (texts that fit in
\* one chunk and base frames whose frag_seq or content differ from T's
\* included), reassemble_text(fragment_text_frame(base, T, M)) returns T, and
\* every fragment passes verify_checksum.
FragmentRoundTrip ==
    /\ frag.frames # None => validate_fragment_checksums(frag.frames[1])
    /\ frag.text_out # None => frag.text_out[1] = Some(frag.text)

\* ceil(len / max_bytes), and one frame for a text that fits in one chunk
ChunkCount(text, max_bytes) ==
    IF Len(text) <= max_bytes THEN 1 ELSE (Len(text) + max_bytes - 1) \div max_bytes

\* C22: for every base frame, text and max_bytes >= 1 (base frames with a
\* non-zero frag_seq or with MORE included), fragment_text_frame returns
\* N = ceil(len/max_bytes) frames, one when the text fits in one chunk; frame
\* i has frag_seq = i, has its chunk (read as a string) as content text, has
\* MORE exactly when i < N-1, and has the checksum of those fields.
FragmentsWellFormed ==
    frag.frames # None =>
        LET fs == frag.frames[1]
            N == ChunkCount(frag.text, frag.max)
        IN  /\ Len(fs) = N
            /\ \A k \in 1..Len(fs) :
                  /\ fs[k].frag_seq = k - 1
                  /\ fs[k].content = Some(from_utf8_lossy(chunk(frag.text, frag.max, k - 1)))
                  /\ has_more(fs[k]) <=> (k - 1 < N - 1)
                  /\ verify_checksum(fs[k])

\* the texts of the frames, first to last, one after the other
RECURSIVE TextsInOrder(_)
TextsInOrder(frames) ==
    IF frames = <<>> THEN <<>>
    ELSE LET l == frames[Len(frames)]
         IN  TextsInOrder(SubSeq(frames, 1, Len(frames) - 1))
                \o (IF l.content # None THEN l.content[1] ELSE <<>>)

\* there is a last frame, every frame's frag_seq is its index, every frame
\* but the last has MORE and the last has not
WellOrdered(frames) ==
    /\ frames # <<>>
    /\ \A k \in 1..Len(frames) :
          /\ frames[k].frag_seq = k - 1
          /\ has_more(frames[k]) <=> k < Len(frames)

\* C23: reassemble_text(frames) returns the concatenation of the frames'
\* payload.content.text if and only if every frame's frag_seq equals its
\* index, every frame but the last carries MORE and the last does not; in
\* every other case (a middle frame without MORE among them) it returns
\* nothing.
ReassembleIffWellOrdered ==
    (frag.frames # None /\ frag.text_out # None) =>
        LET fs == frag.frames[1]
        IN  IF WellOrdered(fs)
            THEN frag.text_out[1] = Some(TextsInOrder(fs))
            ELSE frag.text_out[1] = None

\* three frames numbered 0, 1, 2 whose middle frame lacks MORE were read:
\* nothing came back
ReassembleIffWellOrderedWitness ==
    /\ frag.frames # None
    /\ frag.text_out = Some(None)
    /\ LET fs == frag.frames[1]
       IN  /\ Len(fs) = 3
           /\ \A k \in 1..3 : fs[k].frag_seq = k - 1
           /\ has_more(fs[1]) /\ ~has_more(fs[2]) /\ ~has_more(fs[3])

\* the pushes among the first k of the log that the Reassembler accepted: a
\* push is accepted when no accepted push before it lacked MORE and its
\* frag_seq is the number of pushes accepted before it
RECURSIVE AcceptedUpTo(_, _)
AcceptedUpTo(log, k) ==
    IF k = 0 THEN {}
    ELSE LET before == AcceptedUpTo(log, k - 1)
             done == \E j \in before : ~has_more(log[j].frame)
         IN  IF ~done /\ log[k].frame.frag_seq = Cardinality(before)
             THEN before \cup {k} ELSE before

\* the frames of the pushes in S, in the order of the pushes
RECURSIVE FramesOf(_, _, _)
FramesOf(log, S, k) ==
    IF k > Len(log) THEN <<>>
    ELSE (IF k \in S THEN <<log[k].frame>> ELSE <<>>) \o FramesOf(log, S, k + 1)

Front(q) == SubSeq(q, 1, Len(q) - 1)
Reverse(q) == [i \in 1..Len(q) |-> q[Len(q) + 1 - i]]

\* C14: push returns a buffer at most once, on the first accepted push whose
\* frame lacks MORE; the buffer holds the frames accepted so far in the order
\* pushed, their frag_seq being 0..N-1, all but the last with MORE and the
\* last without; pushes of the fragments of a set whose final fragment was
\* removed never return a buffer.
BufferReturnedOnce ==
    LET log == reasm.log
        returns == {k \in 1..Len(log) : log[k].ret # None}
        acc == AcceptedUpTo(log, Len(log))
    IN  /\ Cardinality(returns) <= 1
        /\ \A k \in 1..Len(log) :
              k \in returns <=> (k \in acc /\ ~has_more(log[k].frame))
        /\ \A k \in returns :
              LET buf == log[k].ret[1]
              IN  /\ buf = FramesOf(log, {j \in acc : j <= k}, 1)
                  /\ \A i \in 1..Len(buf) :
                        /\ buf[i].frag_seq = i - 1
                        /\ has_more(buf[i]) <=> i < Len(buf)
        /\ \A fs \in FragmentSets :
              (\A k \in 1..Len(log) : log[k].frame \in Range(Front(fs))) => returns = {}

\* the third push completed a set of three fragments and returned them; a
\* fourth push followed
BufferReturnedOnceWitness ==
    /\ Len(reasm.log) = 4
    /\ reasm.log[3].ret # None
    /\ Len(reasm.log[3].ret[1]) = 3

\* C15: a push whose frame's frag_seq is not expected_next, or that comes
\* after completion, returns nothing and leaves expected_next, the buffer and
\* complete as they were; so the fragments of a set of two or more, pushed in
\* reverse order, get nothing returned at every push.
RejectedPushChangesNothing ==
    [][LET log == reasm'.log
           f == log[Len(log)].frame
       IN  /\ (Len(log) = Len(reasm.log) + 1
                 /\ (f.frag_seq # reasm.r.expected_next \/ reasm.r.complete))
              => (log[Len(log)].ret = None /\ reasm'.r = reasm.r)
           /\ \A fs \in FragmentSets :
                 (/\ Len(fs) >= 2
                  /\ Len(log) <= Len(fs)
                  /\ \A k \in 1..Len(log) : log[k].frame = Reverse(fs)[k])
                 => \A k \in 1..Len(log) : log[k].ret = None]_vars

\* the three fragments of a set were pushed last first; fragment 0, pushed
\* last, is the only one in the buffer
RejectedPushChangesNothingWitness ==
    /\ \E fs \in FragmentSets :
          /\ Len(fs) = 3
          /\ Len(reasm.log) = 3
          /\ \A k \in 1..3 : reasm.log[k].frame = fs[4 - k]
    /\ reasm.r.expected_next = 1
    /\ Len(reasm.r.buffer) = 1
    /\ ~reasm.r.complete

\* C16: verify_checksum(with_computed_checksum(F)) is true for every frame
\* F; compute_checksum does not depend on the top-level checksum and sig:
\* frames that differ only there have the same computed checksum; a frame
\* without a checksum never verifies.
ChecksumVerifiesWhatItComputed ==
    LET F == cksum.frame
    IN  /\ verify_checksum(with_computed_checksum(F))
        /\ cksum.last = "with_computed_checksum" => verify_checksum(F)
        /\ \A c \in Checksums, sg \in ChecksumSigs :
              compute_checksum([F EXCEPT !.checksum = c, !.sig = sg]) = compute_checksum(F)
        /\ F.checksum = None => ~verify_checksum(F)

\* a signed frame that carried another frame's checksum verifies after
\* with_computed_checksum
ChecksumVerifiesWhatItComputedWitness ==
    /\ cksum.last = "with_computed_checksum"
    /\ cksum.frame.sig # None
    /\ cksum.frame.content = Some(<<97, 98>>)
    /\ verify_checksum(cksum.frame)

-----------------------------------------------------------------------------
(* Properties of the path from the socket to the replies (PipeSpec) *)

\* the replies that are frames: they carry a ttl
TtlOf(m) == IF m.kind = "partial" THEN m.body.ttl[1] ELSE m.body.ttl

TtlAccounted ==
    /\ \A l \in Lanes : \A k \in 1..Len(lanes[l]) : lanes[l][k].ttl >= 1
    /\ \A k \in 1..Len(dispatched) : dispatched[k].ttl >= 1
    /\ \A k \in 1..Len(wsOut) : wsOut[k] = "ttl_expired"
    /\ proc[1].pc # "idle" => dispatched # <<>>
    /\ proc[1].pc \notin {"idle", "done"} => proc[1].frame.ttl = Last(dispatched).ttl
    /\ \A k \in 1..Len(sent[1]) :
          sent[1][k].kind \in {"ACK", "partial", "provisional", "FIN"}
             => /\ TtlOf(sent[1][k]) = Last(dispatched).ttl - 1
                /\ TtlOf(sent[1][k]) \in 0..254

\* C17: a frame received with ttl 0 is answered with ttl_expired and is
\* neither enqueued nor processed; the ACK, the partials, the provisional and
\* the FIN of an accepted request carry the received ttl minus one, a value
\* that is never negative and never wrapped.
TtlDecrementedOnce ==
    [][/\ wsOut' # wsOut =>
             /\ wsOut' = Append(wsOut, "ttl_expired")
             /\ UNCHANGED <<lanes, dispatched, proc, sent>>
       /\ TtlAccounted']_vars

\* a frame with ttl 0 was refused, and a request received with ttl 1 has got
\* its ACK, a partial, the provisional and the FIN, all with ttl 0
TtlDecrementedOnceWitness ==
    /\ wsOut # <<>>
    /\ dispatched # <<>>
    /\ Last(dispatched).ttl = 1
    /\ CountKind(sent[1], "partial") >= 1
    /\ CountKind(sent[1], "provisional") = 1
    /\ Last(sent[1]).kind = "FIN"
    /\ Last(sent[1]).body.ttl = 0

-----------------------------------------------------------------------------
(* Properties of the window table (WindowSpec) *)

\* the step is a call of admit; held'.last tells its arguments and result
AdmitStep == held'.last.op = "admit" /\ held' # held

\* C2: admit returns true iff inflight < max_parallel, tokens + need_tokens
\* <= max_tokens and usd + need_usd <= max_usd_micros for the key's entry at
\* the call; then inflight grows by 1, tokens by need_tokens, usd by need_usd;
\* when it returns false the entry's counters and mark are unchanged; the
\* entries of the other keys are unchanged either way.
AdmitIffWithinWindow ==
    [][AdmitStep =>
          LET c == held'.last
              e == Entry(windows, c.r.key)
              e2 == Entry(windows', c.r.key)
          IN  /\ c.ok <=> /\ e.inflight < c.w.max_parallel
                          /\ e.tokens + c.r.tokens <= c.w.max_tokens
                          /\ e.usd + c.r.usd <= c.w.max_usd_micros
              /\ c.ok => /\ e2.inflight = e.inflight + 1
                         /\ e2.tokens = e.tokens + c.r.tokens
                         /\ e2.usd = e.usd + c.r.usd
              /\ ~c.ok => /\ Counters(e2) = Counters(e)
                          /\ e2.last_backpressure = e.last_backpressure
              /\ \A k \in Keys \ {c.r.key} :
                    /\ Entry(windows', k) = Entry(windows, k)
                    /\ k \in DOMAIN windows' <=> k \in DOMAIN windows]_vars

\* an admit has been refused for a full inflight count on a key that holds
\* tokens and a mark, while the other key holds a reservation too
AdmitIffWithinWindowWitness ==
    /\ held.last.op = "admit"
    /\ ~held.last.ok
    /\ held.last.pre.inflight = 2
    /\ held.last.pre.tokens > 0
    /\ held.last.pre.last_backpressure # None
    /\ \E k \in Keys \ {held.last.r.key} : Entry(windows, k).inflight > 0

\* C25: with any number of processors running concurrently on one key, all
\* carrying the same window, in every reachable state inflight <=
\* max_parallel, tokens <= max_tokens and usd <= max_usd_micros for the key;
\* an admit that would pass a limit is refused, also right after another
\* caller's admit took the room.
WithinSharedWindow ==
    /\ \A key \in Keys :
          LET e == Entry(windows, key)
              w == KeyWindow(key)
          IN  /\ e.inflight <= w.max_parallel
              /\ e.tokens <= w.max_tokens
              /\ e.usd <= w.max_usd_micros
    /\ (held.last.op = "admit" /\ held.last.ok)
          => LET w == KeyWindow(held.last.r.key)
             IN  /\ held.last.pre.inflight < w.max_parallel
                 /\ held.last.pre.tokens + held.last.r.tokens <= w.max_tokens
                 /\ held.last.pre.usd + held.last.r.usd <= w.max_usd_micros

\* two processors hold key s1:b (inflight 2 of 2, tokens 2 of 2) and a third
\* processor's admit on it, which needs nothing, was just refused; one more
\* processor holds the only slot of key s1:a
WithinSharedWindowWitness ==
    /\ Counters(Entry(windows, "s1:b")) = <<2, 2, 1>>
    /\ Entry(windows, "s1:a").inflight = 1
    /\ held.last.op = "admit"
    /\ ~held.last.ok
    /\ held.last.r.key = "s1:b"
    /\ held.last.r.tokens = 0

\* the reservations held on a key, and the sum of one of their fields over
\* the processors that hold them
HeldOn(key) == {r \in BagToSet(held.res) : r.key = key}
HeldCount(key) == SumOver([r \in HeldOn(key) |-> CopiesIn(r, held.res)], HeldOn(key))
HeldTokens(key) ==
    SumOver([r \in HeldOn(key) |-> CopiesIn(r, held.res) * r.tokens], HeldOn(key))
HeldUsd(key) ==
    SumOver([r \in HeldOn(key) |-> CopiesIn(r, held.res) * r.usd], HeldOn(key))

\* C26: in every reachable state and for every key, inflight is the number
\* of processors between their successful admit and their ack on the key,
\* and tokens and usd are the sums of those processors' need_tokens and
\* need_usd; so no ack clips at zero, and a key that no processor holds has
\* inflight, tokens and usd 0, whatever the interleaving and the windows.
CountersAreHeldSums ==
    /\ [](\A key \in Keys :
            LET e == Entry(windows, key)
            IN  /\ e.inflight = HeldCount(key)
                /\ e.tokens = HeldTokens(key)
                /\ e.usd = HeldUsd(key)
                /\ HeldOn(key) = {} => Counters(e) = <<0, 0, 0>>)
    /\ [][(held'.last.op = "ack" /\ held' # held)
            => LET r == held'.last.r
                   e == Entry(windows, r.key)
               IN  /\ r.key \in DOMAIN windows
                   /\ e.inflight >= 1 /\ e.tokens >= r.tokens /\ e.usd >= r.usd
                   /\ Counters(Entry(windows', r.key))
                        = <<e.inflight - 1, e.tokens - r.tokens, e.usd - r.usd>>]_vars

\* of two processors on key s1:b the one that needed (1, 2) has released,
\* out of order with its admit; the other, which needs nothing, still holds
\* its slot; key s1:a has an entry and no holder
CountersAreHeldSumsWitness ==
    /\ held.last.op = "ack"
    /\ ~held.last.fresh
    /\ held.last.r = Reservation("s1:b", 1, 2)
    /\ held.res = SetToBag({Reservation("s1:b", 0, 0)})
    /\ Counters(Entry(windows, "s1:b")) = <<1, 0, 0>>
    /\ "s1:a" \in DOMAIN windows

\* C3: in every state of the table, for every key, window, n and u, a
\* successful admit followed by ack(key, n, u) gives the key's inflight,
\* tokens and usd their values of before the admit; and whenever a caller has
\* released a reservation right after taking it, the counters are those the
\* key had before.
AdmitAckRestores ==
    /\ \A key \in Keys, w \in WindowChoices, n \in NeedChoices :
          LET r == admit(windows, key, w, n[1], n[2])
          IN  r.ok => Counters(Entry(ack(r.map, key, n[1], n[2]), key))
                         = Counters(Entry(windows, key))
    /\ (held.last.op = "ack" /\ held.last.fresh)
          => Counters(Entry(windows, held.last.r.key)) = Counters(held.last.pre)

\* a reservation was released right after it was taken, on a key that held
\* another reservation all along
AdmitAckRestoresWitness ==
    /\ held.last.op = "ack"
    /\ held.last.fresh
    /\ held.last.pre.inflight = 1
    /\ held.last.pre.tokens = 1
    /\ held.last.pre.usd = 2

-----------------------------------------------------------------------------
(* Properties of the dispatcher (SchedSpec) *)

LaneCount(i, l) ==
    Cardinality({k \in i..(i + 8) : lane_from_qos(dispatched[k].qos) = l})

\* C7: the k-th dispatch is from the lane of slot k of the rotation Gold x5,
\* Silver x3, Bronze x1, whatever the lanes hold; so any nine consecutive
\* dispatches are 5 Gold, 3 Silver and 1 Bronze item.
RotationShare ==
    /\ \A k \in 1..Len(dispatched) :
          lane_from_qos(dispatched[k].qos) = InitialOrder[((k - 1) % 9) + 1]
    /\ \A i \in 1..Len(dispatched) :
          i + 8 <= Len(dispatched)
             => /\ LaneCount(i, "Gold") = 5
                /\ LaneCount(i, "Silver") = 3
                /\ LaneCount(i, "Bronze") = 1

\* ten dispatches under saturation: every lane held an item each time the
\* dispatcher selected it
RotationShareWitness ==
    /\ Len(dispatched) >= 10
    /\ saturated

\* the rotation after n ticks
OrderAfter(n) == [i \in 1..Len(InitialOrder) |->
                    InitialOrder[((i - 1 + n) % Len(InitialOrder)) + 1]]

\* the ticks so far: one per dispatch, and one more while a slot is waited on
Ticks == Len(dispatched) + (IF sel # None THEN 1 ELSE 0)

\* C24: the dispatcher advances the rotation by exactly one slot per tick
\* and dequeues only from the lane of the current slot; while that lane is
\* empty it dispatches nothing and does not move on, whatever the other
\* lanes hold, and it leaves the slot only by dispatching an item of that
\* lane.  Hence the slot served is always slot number (dispatches so far + 1):
\* an item is dispatched only after every slot before its own got an item.
EmptySlotStalls ==
    /\ [](/\ order = OrderAfter(Ticks)
          /\ sel # None => sel[1] = OrderAfter(Len(dispatched))[1])
    /\ [][/\ order' # order
              => (sel = None /\ sel' = Some(Head(order)) /\ order' = rotate(order)
                    /\ dispatched' = dispatched)
          /\ dispatched' # dispatched
              => (/\ sel # None
                  /\ lanes[sel[1]] # <<>>
                  /\ dispatched' = Append(dispatched, Head(lanes[sel[1]]))
                  /\ \A l \in Lanes \ {sel[1]} : lanes'[l] = lanes[l]
                  /\ order' = order)
          /\ (sel # None /\ lanes[sel[1]] = <<>>)
              => (dispatched' = dispatched /\ sel' = sel /\ order' = order)
          /\ (sel # None /\ sel' # sel)
              => (sel' = None /\ dispatched' # dispatched)]_vars

\* after two dispatches the dispatcher waits on the Gold lane, which is
\* empty, while three Silver and two Bronze items wait
EmptySlotStallsWitness ==
    /\ Len(dispatched) = 2
    /\ sel = Some("Gold")
    /\ lanes["Gold"] = <<>>
    /\ Len(lanes["Silver"]) = 3
    /\ Len(lanes["Bronze"]) = 2

RECURSIVE ArrivalsDispatched(_, _)
\* the arrival numbers of the items of lane l dispatched from the k-th
\* dispatch on, in the order of their dispatch
ArrivalsDispatched(l, k) ==
    IF k > Len(dispatched) THEN <<>>
    ELSE (IF dispatched[k].lane = l THEN <<dispatched[k].n>> ELSE <<>>)
            \o ArrivalsDispatched(l, k + 1)

\* C20: for each lane, the items dispatched so far, in the order of their
\* dispatch, followed by the items still waiting on the lane, are the items
\* enqueued on the lane in the order of their arrival, each once: an item
\* enqueued earlier is dispatched earlier, none twice and none lost.
LaneFifo ==
    \A l \in Lanes :
        LET seen == ArrivalsDispatched(l, 1)
                       \o [k \in 1..Len(lanes[l]) |-> lanes[l][k].n]
        IN  /\ seen = [k \in 1..Len(seen) |-> k]
            /\ \A k \in 1..Len(lanes[l]) : lanes[l][k].lane = l

\* five Gold items were dispatched in their order of arrival while two more
\* Gold items and a Bronze item wait
LaneFifoWitness ==
    /\ ArrivalsDispatched("Gold", 1) = <<1, 2, 3, 4, 5>>
    /\ Len(lanes["Gold"]) = 2
    /\ Len(lanes["Bronze"]) = 1

-----------------------------------------------------------------------------
(* Progress of an admitted request (LiveSpec) *)

AdmitSucceeded == \E i \in CallsOf(1, "admit") : calls[1][i].ok
Released == CallsOf(1, "ack") # {}

\* C19: with fair scheduling of the processor, its pending send and the
\* writer task, and every adapter stream ending, a request whose admit
\* succeeded eventually calls ack, whether or not the client has closed its
\* socket on the way: no send on the reply channel blocks for ever.
AdmittedEventuallyReleases == AdmitSucceeded ~> Released

\* the client left while replies were still to come, the processor met a full
\* channel on the way, and the reservation is released after the FIN
AdmittedEventuallyReleasesWitness ==
    /\ out.closed
    /\ out.got = 1
    /\ out.n = 4
    /\ Last(sent[1]).kind = "FIN"
    /\ Released

=============================================================================
